---- MODULE Spec2Model ----
(***************************************************************************)
(* Model of the problem selection and quality-scoring engine of            *)
(* leetcode_tools: selector/engine.py (ProblemSelector),                   *)
(* selector/scoring.py (calculate_quality_score) and the storage fetch     *)
(* core/database.py (DatabaseManager.get_quality_problems), together with  *)
(* the entry point cli/main.py (selector_main), the storage update         *)
(* DatabaseManager.update_problem, the paging download                     *)
(* api/client.py (LeetCodeAPIClient.fetch_problems) and the command        *)
(* cli/commands.py (handle_add_to_list).                                   *)
(*                                                                         *)
(* Numbers.  Scores are Python floats; the model keeps them as exact       *)
(* rationals with the fixed denominator SCALE (a score s is held as        *)
(* s * SCALE).  Topic weights are held in tenths (1.5 is 15).  The input   *)
(* sets are chosen so that every division below is exact.                  *)
(*                                                                         *)
(* Text.  A Python/SQL string is a sequence of one-character strings, so   *)
(* that joining (GROUP_CONCAT), splitting (str.split), lower-casing and    *)
(* substring search are computed, not assumed.                             *)
(*                                                                         *)
(* Values.  A dictionary value is None, a number or a string:              *)
(* [k |-> "none" | "num" | "str", n |-> number, s |-> text].  A dictionary *)
(* is a function whose DOMAIN is its set of keys.                          *)
(***************************************************************************)
EXTENDS Integers, Sequences, FiniteSets, TLC

VARIABLES
    rb_file,          \* the rating-brackets config file the selector was built with
    tw_file,          \* the topic-weights config file the selector was built with
    rating_brackets,  \* ProblemSelector.rating_brackets
    topic_weights,    \* ProblemSelector.topic_weights
    db,               \* rows of the problems table (with their topics, companies)
    pc,               \* position inside generate_problem_list
    args,             \* arguments of the running generate_problem_list call
    counts,           \* raw and final per-difficulty target counts
    segs,             \* easy_problems, medium_problems, hard_problems
    failed,           \* difficulties whose storage fetch failed in this call
    queries,          \* storage queries issued so far, in order
    console,          \* messages printed by console.print, in order
    result,           \* value returned by generate_problem_list
    problem,          \* argument of a direct calculate_quality_score call
    score_out,        \* outcome of that call
    out_file,         \* the file save_to_file was asked to write
    main_pc,          \* position inside selector_main
    connect_result,   \* what db_manager.connect() returned to selector_main
    close_calls,      \* number of db_manager.close() calls
    exit_status,      \* how the selector_main process ended
    tx_pending,       \* rows written on the connection and not yet committed
    tx_committed,     \* rows committed on the connection
    upd_log,          \* update_problem calls so far: rows written, value returned
    fetch_pc,         \* position inside LeetCodeAPIClient.fetch_problems
    skip,             \* skip of fetch_problems
    total_problems,   \* total_problems of fetch_problems
    fetched_problems, \* problems of fetch_problems
    posted,           \* offsets requested by fetch_problems, in order
    fetch_out,        \* value returned by fetch_problems
    list_pc,          \* position inside handle_add_to_list
    problem_inputs,   \* lines loaded from the problems file
    delay,            \* args.delay
    list_i,           \* index of the loop of handle_add_to_list
    success_count,    \* success_count of handle_add_to_list
    fail_count,       \* fail_count of handle_add_to_list
    add_calls,        \* add_problem_to_list calls so far, by index
    resolve_errors    \* per problem processed: get_problem_id returned an error

mainVars == <<main_pc, connect_result, close_calls, exit_status>>

updateVars == <<tx_pending, tx_committed, upd_log>>

fetchVars == <<fetch_pc, skip, total_problems, fetched_problems, posted,
               fetch_out>>

listVars == <<list_pc, problem_inputs, delay, list_i, success_count, fail_count,
              add_calls, resolve_errors>>

selectorVars == <<rb_file, tw_file, rating_brackets, topic_weights, db, pc, args,
                  counts, segs, failed, queries, console, result, problem,
                  score_out, out_file>>

vars == <<selectorVars, mainVars, updateVars, fetchVars, listVars>>

\* selector_main is not running
MainIdle ==
    /\ main_pc = "none"
    /\ connect_result = "none"
    /\ close_calls = 0
    /\ exit_status = "running"

\* no update_problem call was made
UpdateIdle ==
    /\ tx_pending = {}
    /\ tx_committed = {}
    /\ upd_log = <<>>

\* fetch_problems is not running
FetchIdle ==
    /\ fetch_pc = "none"
    /\ skip = 0
    /\ total_problems = 0
    /\ fetched_problems = <<>>
    /\ posted = <<>>
    /\ fetch_out = [status |-> "none", value |-> <<>>]

\* handle_add_to_list is not running
ListIdle ==
    /\ list_pc = "none"
    /\ problem_inputs = <<>>
    /\ delay = 0
    /\ list_i = 0
    /\ success_count = 0
    /\ fail_count = 0
    /\ add_calls = <<>>
    /\ resolve_errors = <<>>

----------------------------------------------------------------------------
(* Bounds of the model *)

MaxCount == 10

MaxNeg == 2

SCALE == 16 * 9 * 25 * 13

----------------------------------------------------------------------------
(* Arithmetic helpers *)

Min(a, b) == IF a <= b THEN a ELSE b

Max(a, b) == IF a >= b THEN a ELSE b

Abs(a) == IF a < 0 THEN -a ELSE a

\* Python int(x) on a float quotient n/d (d > 0): truncation toward zero
IntTrunc(n, d) == IF n >= 0 THEN n \div d ELSE -((-n) \div d)

----------------------------------------------------------------------------
(* Values and dictionaries *)

None == [k |-> "none", n |-> 0, s |-> <<>>]

Num(x) == [k |-> "num", n |-> x, s |-> <<>>]

Str(t) == [k |-> "str", n |-> 0, s |-> t]

\* a dictionary with no keys
EmptyDict == [key \in {} |-> None]

\* dict.get(key, default); dict.get(key) is Get(d, key, None)
Get(d, key, default) == IF key \in DOMAIN d THEN d[key] ELSE default

\* Python truthiness of a value
Truthy(v) ==
    CASE v.k = "none" -> FALSE
      [] v.k = "num" -> v.n # 0
      [] OTHER -> v.s # <<>>

Digits == "0" :> 0 @@ "1" :> 1 @@ "2" :> 2 @@ "3" :> 3 @@ "4" :> 4 @@
          "5" :> 5 @@ "6" :> 6 @@ "7" :> 7 @@ "8" :> 8 @@ "9" :> 9

IsNumeric(t) == t # <<>> /\ \A i \in 1..Len(t) : t[i] \in DOMAIN Digits

RECURSIVE ParseDigits(_, _)
ParseDigits(t, acc) ==
    IF t = <<>> THEN acc ELSE ParseDigits(Tail(t), 10 * acc + Digits[Head(t)])

\* float(v) / int(v): [raised, n]; a non-numeric string raises ValueError,
\* None raises TypeError
ToNumber(v) ==
    CASE v.k = "num" -> [raised |-> "", n |-> v.n]
      [] v.k = "none" -> [raised |-> "TypeError", n |-> 0]
      [] OTHER -> IF IsNumeric(v.s)
                  THEN [raised |-> "", n |-> ParseDigits(v.s, 0)]
                  ELSE [raised |-> "ValueError", n |-> 0]

----------------------------------------------------------------------------
(* Text *)

UpperToLower ==
    "A" :> "a" @@ "B" :> "b" @@ "C" :> "c" @@ "D" :> "d" @@ "E" :> "e" @@
    "F" :> "f" @@ "G" :> "g" @@ "H" :> "h" @@ "I" :> "i" @@ "J" :> "j" @@
    "K" :> "k" @@ "L" :> "l" @@ "M" :> "m" @@ "N" :> "n" @@ "O" :> "o" @@
    "P" :> "p" @@ "Q" :> "q" @@ "R" :> "r" @@ "S" :> "s" @@ "T" :> "t" @@
    "U" :> "u" @@ "V" :> "v" @@ "W" :> "w" @@ "X" :> "x" @@ "Y" :> "y" @@
    "Z" :> "z"

\* str.lower()
Lower(t) == [i \in 1..Len(t) |->
                IF t[i] \in DOMAIN UpperToLower THEN UpperToLower[t[i]] ELSE t[i]]

\* needle in hay
Contains(hay, needle) ==
    \E i \in 1..(Len(hay) - Len(needle) + 1) :
        SubSeq(hay, i, i + Len(needle) - 1) = needle

\* s.split(', '), with cur the piece being read
RECURSIVE SplitFrom(_, _)
SplitFrom(s, cur) ==
    IF s = <<>> THEN <<cur>>
    ELSE IF Len(s) >= 2 /\ s[1] = "," /\ s[2] = " "
         THEN <<cur>> \o SplitFrom(SubSeq(s, 3, Len(s)), <<>>)
         ELSE SplitFrom(Tail(s), Append(cur, Head(s)))

Split(s) == SplitFrom(s, <<>>)

\* GROUP_CONCAT(... SEPARATOR ', ') over a non-empty list of names
RECURSIVE Join(_)
Join(names) ==
    IF Len(names) = 1 THEN names[1]
    ELSE names[1] \o <<",", " ">> \o Join(Tail(names))

----------------------------------------------------------------------------
(* Configuration tables and their loaders *)

sEasy == <<"E","a","s","y">>

sMedium == <<"M","e","d","i","u","m">>

sHard == <<"H","a","r","d">>

sArray == <<"A","r","r","a","y">>

sMath == <<"M","a","t","h">>

sGraph == <<"G","r","a","p","h">>

sDesign == <<"D","e","s","i","g","n">>

sTrie == <<"T","r","i","e">>

\* a topic that no weight table lists
sShell == <<"S","h","e","l","l">>

default_brackets ==
    [b \in {"1700-1800", "1800-1900", "1900-2000", "2000-2100",
            "2100-2200", "2200-2300", "2300-2400"} |->
        CASE b = "1700-1800" ->
                [easy_pct |-> 20, medium_pct |-> 70, hard_pct |-> 10,
                 medium_acc |-> <<45, 70>>, hard_acc |-> <<30, 45>>,
                 like_ratio |-> 5, freq_min |-> 50]
          [] b = "1800-1900" ->
                [easy_pct |-> 10, medium_pct |-> 65, hard_pct |-> 25,
                 medium_acc |-> <<35, 60>>, hard_acc |-> <<25, 40>>,
                 like_ratio |-> 7, freq_min |-> 60]
          [] b = "1900-2000" ->
                [easy_pct |-> 5, medium_pct |-> 55, hard_pct |-> 40,
                 medium_acc |-> <<30, 50>>, hard_acc |-> <<20, 35>>,
                 like_ratio |-> 10, freq_min |-> 70]
          [] b = "2000-2100" ->
                [easy_pct |-> 0, medium_pct |-> 50, hard_pct |-> 50,
                 medium_acc |-> <<25, 45>>, hard_acc |-> <<15, 30>>,
                 like_ratio |-> 15, freq_min |-> 75]
          [] b = "2100-2200" ->
                [easy_pct |-> 0, medium_pct |-> 40, hard_pct |-> 60,
                 medium_acc |-> <<20, 40>>, hard_acc |-> <<10, 25>>,
                 like_ratio |-> 20, freq_min |-> 80]
          [] b = "2200-2300" ->
                [easy_pct |-> 0, medium_pct |-> 30, hard_pct |-> 70,
                 medium_acc |-> <<15, 35>>, hard_acc |-> <<5, 20>>,
                 like_ratio |-> 25, freq_min |-> 85]
          [] OTHER ->
                [easy_pct |-> 0, medium_pct |-> 20, hard_pct |-> 80,
                 medium_acc |-> <<10, 30>>, hard_acc |-> <<0, 15>>,
                 like_ratio |-> 30, freq_min |-> 90]]

default_weights ==
   <<"A","r","r","a","y">> :> 15 @@
   <<"H","a","s","h"," ","T","a","b","l","e">> :> 15 @@
   <<"L","i","n","k","e","d"," ","L","i","s","t">> :> 13 @@
   <<"T","r","e","e">> :> 14 @@
   <<"B","i","n","a","r","y"," ","T","r","e","e">> :> 14 @@
   <<"B","i","n","a","r","y"," ","S","e","a","r","c","h"," ","T","r","e","e">> :> 13 @@
   <<"H","e","a","p"," ","(","P","r","i","o","r","i","t","y"," ","Q","u","e","u","e",")">> :> 14 @@
   <<"S","t","a","c","k">> :> 13 @@
   <<"Q","u","e","u","e">> :> 13 @@
   <<"G","r","a","p","h">> :> 15 @@
   <<"D","y","n","a","m","i","c"," ","P","r","o","g","r","a","m","m","i","n","g">> :> 15 @@
   <<"B","i","n","a","r","y"," ","S","e","a","r","c","h">> :> 15 @@
   <<"D","e","p","t","h","-","F","i","r","s","t"," ","S","e","a","r","c","h">> :> 15 @@
   <<"B","r","e","a","d","t","h","-","F","i","r","s","t"," ","S","e","a","r","c","h">> :> 15 @@
   <<"T","w","o"," ","P","o","i","n","t","e","r","s">> :> 14 @@
   <<"S","l","i","d","i","n","g"," ","W","i","n","d","o","w">> :> 14 @@
   <<"B","a","c","k","t","r","a","c","k","i","n","g">> :> 13 @@
   <<"G","r","e","e","d","y">> :> 14 @@
   <<"S","o","r","t","i","n","g">> :> 13 @@
   <<"D","e","s","i","g","n">> :> 16 @@
   <<"D","a","t","a"," ","S","t","r","e","a","m">> :> 15 @@
   <<"I","t","e","r","a","t","o","r">> :> 13 @@
   <<"C","o","n","c","u","r","r","e","n","c","y">> :> 15 @@
   <<"T","r","i","e">> :> 14 @@
   <<"U","n","i","o","n"," ","F","i","n","d">> :> 14 @@
   <<"S","e","g","m","e","n","t"," ","T","r","e","e">> :> 14 @@
   <<"B","i","n","a","r","y"," ","I","n","d","e","x","e","d"," ","T","r","e","e">> :> 14 @@
   <<"M","o","n","o","t","o","n","i","c"," ","S","t","a","c","k">> :> 13 @@
   <<"M","o","n","o","t","o","n","i","c"," ","Q","u","e","u","e">> :> 13 @@
   <<"S","t","r","i","n","g">> :> 13 @@
   <<"M","a","t","h">> :> 12 @@
   <<"B","i","t"," ","M","a","n","i","p","u","l","a","t","i","o","n">> :> 12

\* A configuration file as the loaders see it: no path given, a path to a
\* file that does not exist, a file whose read or JSON parse fails, or a
\* file that parses to content.
FileKinds == {"nopath", "missing", "unreadable", "valid"}

\* The ways the try block of a loader fails: open() raises (unreadable),
\* json.load raises (invalid), or the parsed value is not a JSON object, so
\* that brackets.values() raises (notdict).
FailKinds == {"unreadable", "invalid", "notdict"}

\* The exception that leaves a loader: none, "except Exception" catches
\* whatever the try block raises
LoaderEscapes(file) == ""

\* the except clause returning an empty table instead of the defaults
load_rating_brackets_NoFallback(file) ==
    IF file.kind = "nopath" \/ file.kind = "missing" THEN default_brackets
    ELSE IF file.kind = "valid" THEN file.content
    ELSE EmptyDict

\* _load_rating_brackets: the table the selector uses
load_rating_brackets(file) ==
    IF file.kind = "nopath" \/ file.kind = "missing" THEN default_brackets
    ELSE IF file.kind = "valid" THEN file.content
    ELSE default_brackets

\* what _load_rating_brackets prints
load_rating_brackets_msgs(file) ==
    IF file.kind \in FailKinds THEN <<"Error loading rating brackets">> ELSE <<>>

\* _load_topic_weights: the table the selector uses
load_topic_weights(file) ==
    IF file.kind = "nopath" \/ file.kind = "missing" THEN default_weights
    ELSE IF file.kind = "valid" THEN file.content
    ELSE default_weights

\* what _load_topic_weights prints
load_topic_weights_msgs(file) ==
    IF file.kind \in FailKinds THEN <<"Error loading topic weights">> ELSE <<>>

----------------------------------------------------------------------------
(* selector/scoring.py: calculate_quality_score *)

\* NumField without the "is not None" guard: float(problem.get(key, dflt))
NumField_NoNoneGuard(p, key, dflt) == ToNumber(Get(p, key, Num(dflt)))

\* float(problem.get(key, 0)) if problem.get(key) is not None else dflt
\* (int(...) for likes and dislikes): [raised, n]
NumField(p, key, dflt) ==
    IF Get(p, key, None).k # "none"
    THEN ToNumber(Get(p, key, Num(dflt)))
    ELSE [raised |-> "", n |-> dflt]

\* problem.get(key, "").split(', ') if problem.get(key) else []
\* ; a truthy value that is not a string has no split: AttributeError
ListField(p, key) ==
    IF Truthy(Get(p, key, None))
    THEN IF Get(p, key, Str(<<>>)).k = "str"
         THEN [raised |-> "", items |-> Split(Get(p, key, Str(<<>>)).s)]
         ELSE [raised |-> "AttributeError", items |-> <<>>]
    ELSE [raised |-> "", items |-> <<>>]

\* the frequency score counted downward from 80
FreqScore_Inverted(frequency) == ((80 - Min(frequency, 80)) * 40 * SCALE) \div 80

\* freq_score = min(frequency, 80) / 80 * 40
FreqScore(frequency) == (Min(frequency, 80) * 40 * SCALE) \div 80

\* AccScore with the lower edge of the Easy band excluded (50 < acceptance)
AccScore_EasyStrict(difficulty, acceptance) ==
    IF difficulty = Str(sEasy)
    THEN IF 50 < acceptance /\ acceptance <= 70 THEN 20 * SCALE
         ELSE IF acceptance < 50 THEN (acceptance * 20 * SCALE) \div 50
         ELSE Max(0, ((90 - acceptance) * SCALE) \div 20) * 20
    ELSE IF difficulty = Str(sMedium)
    THEN IF 40 <= acceptance /\ acceptance <= 60 THEN 20 * SCALE
         ELSE IF acceptance < 40 THEN (acceptance * 20 * SCALE) \div 40
         ELSE Max(0, ((80 - acceptance) * SCALE) \div 20) * 20
    ELSE IF 30 <= acceptance /\ acceptance <= 50 THEN 20 * SCALE
         ELSE IF acceptance < 30 THEN (acceptance * 20 * SCALE) \div 30
         ELSE Max(0, ((70 - acceptance) * SCALE) \div 20) * 20

\* acc_score: the optimal band depends on the difficulty value
AccScore(difficulty, acceptance) ==
    IF difficulty = Str(sEasy)
    THEN IF 50 <= acceptance /\ acceptance <= 70 THEN 20 * SCALE
         ELSE IF acceptance < 50 THEN (acceptance * 20 * SCALE) \div 50
         ELSE Max(0, ((90 - acceptance) * SCALE) \div 20) * 20
    ELSE IF difficulty = Str(sMedium)
    THEN IF 40 <= acceptance /\ acceptance <= 60 THEN 20 * SCALE
         ELSE IF acceptance < 40 THEN (acceptance * 20 * SCALE) \div 40
         ELSE Max(0, ((80 - acceptance) * SCALE) \div 20) * 20
    ELSE IF 30 <= acceptance /\ acceptance <= 50 THEN 20 * SCALE
         ELSE IF acceptance < 30 THEN (acceptance * 20 * SCALE) \div 30
         ELSE Max(0, ((70 - acceptance) * SCALE) \div 20) * 20

\* the like ratio with zero dislikes counted as one dislike
LikeRatio_ZeroAsOne(likes, dislikes) ==
    IF dislikes > 0 THEN (likes * SCALE) \div dislikes
    ELSE IF dislikes = 0 THEN likes * SCALE ELSE 0

\* like_ratio = likes / dislikes if dislikes > 0 else 0  (times SCALE)
LikeRatio(likes, dislikes) ==
    IF dislikes > 0 THEN (likes * SCALE) \div dislikes ELSE 0

\* the like score without the cap of the ratio at 30
LikeScore_NoCap(likes, dislikes) == (LikeRatio(likes, dislikes) * 20) \div 30

\* like_score = min(like_ratio, 30) / 30 * 20
LikeScore(likes, dislikes) ==
    (Min(LikeRatio(likes, dislikes), 30 * SCALE) * 20) \div 30

\* topic_weights.get(topic, 1.0), in tenths
TopicWeight(weights, topic) ==
    IF topic \in DOMAIN weights THEN weights[topic] ELSE 10

RECURSIVE TotalWeight(_, _)
TotalWeight(weights, topics) ==
    IF topics = <<>> THEN 0
    ELSE TopicWeight(weights, Head(topics)) + TotalWeight(weights, Tail(topics))

\* TopicScore without the cap at 1.3
TopicScore_NoCap(weights, topics) ==
    IF topics = <<>> THEN 0
    ELSE (((TotalWeight(weights, topics) * SCALE) \div (10 * Len(topics))) * 150) \div 13

\* topic_score = min(avg_weight, 1.3) / 1.3 * 15, 0 without topics
TopicScore(weights, topics) ==
    IF topics = <<>> THEN 0
    ELSE (Min((TotalWeight(weights, topics) * SCALE) \div (10 * Len(topics)),
              (13 * SCALE) \div 10) * 150) \div 13

\* rating_score = min(5, max(0, 5 - abs(rating - 2000) / 200)) if rating > 0
RatingScore(rating) ==
    IF rating > 0
    THEN Min(5 * SCALE, Max(0, 5 * SCALE - (Abs(rating - 2000) * SCALE) \div 200))
    ELSE 0

target_companies ==
    << <<"g","o","o","g","l","e">>, <<"a","m","a","z","o","n">>,
       <<"f","a","c","e","b","o","o","k">>,
       <<"m","i","c","r","o","s","o","f","t">>, <<"a","p","p","l","e">> >>

\* the target test without lowercasing the tag
IsTargetCompany_CaseSensitive(company) ==
    \E i \in 1..Len(target_companies) :
        Contains(company, target_companies[i])

IsTargetCompany(company) ==
    \E i \in 1..Len(target_companies) :
        Contains(Lower(company), Lower(target_companies[i]))

RECURSIVE CompanyPoints(_)
CompanyPoints(companies) ==
    IF companies = <<>> THEN 0
    ELSE (IF IsTargetCompany(Head(companies)) THEN 2 ELSE 0)
         + CompanyPoints(Tail(companies))

\* company_score = min(2 per target company tag, 10)
CompanyScore(companies) ==
    IF companies = <<>> THEN 0 ELSE Min(CompanyPoints(companies), 10) * SCALE

\* The exception raised while the attributes are extracted, "" if none
ExtractError(p) ==
    LET errs == <<NumField(p, "frequency_bar", 0).raised,
                  NumField(p, "acceptance_rate", 0).raised,
                  NumField(p, "likes", 0).raised,
                  NumField(p, "dislikes", 1).raised,
                  NumField(p, "rating", 0).raised,
                  ListField(p, "topics").raised,
                  ListField(p, "companies").raised>>
        bad == {i \in 1..Len(errs) : errs[i] # ""}
    IN  IF bad = {} THEN ""
        ELSE errs[CHOOSE i \in bad : \A j \in bad : i <= j]

\* the six sub-scores (times SCALE) of a record whose attributes extract
SubScores(p, weights) ==
    [freq |-> FreqScore(NumField(p, "frequency_bar", 0).n),
     acc |-> AccScore(Get(p, "difficulty", Str(sMedium)),
                      NumField(p, "acceptance_rate", 0).n),
     like |-> LikeScore(NumField(p, "likes", 0).n, NumField(p, "dislikes", 1).n),
     topic |-> TopicScore(weights, ListField(p, "topics").items),
     rating |-> RatingScore(NumField(p, "rating", 0).n),
     company |-> CompanyScore(ListField(p, "companies").items)]

NoParts == [freq |-> 0, acc |-> 0, like |-> 0, topic |-> 0, rating |-> 0, company |-> 0]

\* calculate_quality_score(problem, topic_weights): [raised, value], value
\* being total_score * SCALE
calculate_quality_score(p, weights) ==
    IF ExtractError(p) # "" THEN [raised |-> ExtractError(p), value |-> 0]
    ELSE [raised |-> "",
          value |-> FreqScore(NumField(p, "frequency_bar", 0).n)
                    + AccScore(Get(p, "difficulty", Str(sMedium)),
                               NumField(p, "acceptance_rate", 0).n)
                    + LikeScore(NumField(p, "likes", 0).n,
                                NumField(p, "dislikes", 1).n)
                    + TopicScore(weights, ListField(p, "topics").items)
                    + RatingScore(NumField(p, "rating", 0).n)
                    + CompanyScore(ListField(p, "companies").items)]

----------------------------------------------------------------------------
(* core/database.py: the problems table and get_quality_problems *)

\* A row of problems with the names joined to it through problem_topics and
\* problem_companies.
Row(id, slug, difficulty, status, acc, freq, likes, dislikes, rating, topics, companies) ==
    [id |-> id, title_slug |-> slug, difficulty |-> difficulty, status |-> status,
     acceptance_rate |-> acc, frequency_bar |-> freq, likes |-> likes,
     dislikes |-> dislikes, rating |-> rating, topic_names |-> topics,
     company_names |-> companies]

sAc == <<"a","c">>

E1 == Row(1, <<"e","1">>, sEasy, None, Num(65), Num(60), Num(100), Num(10), None,
          <<sArray>>, << <<"G","o","o","g","l","e">> >>)

E2 == Row(2, <<"e","2">>, sEasy, None, Num(80), None, None, None, None, <<>>, <<>>)

E3 == Row(3, <<"e","3">>, sEasy, Str(sAc), Num(60), Num(99), Num(300), Num(10),
          Num(2000), <<sArray>>, <<>>)

M1 == Row(4, <<"m","1">>, sMedium, None, Num(50), Num(80), Num(10), Num(1), Num(2000),
          <<sArray>>, << <<"G","o","o","g","l","e">> >>)

M2 == Row(5, <<"m","2">>, sMedium, Str(<<"n","o","t","a","c">>), Num(45), Num(90),
          Num(300), Num(0), None, <<sMath>>,
          << <<"P","i","n","e","a","p","p","l","e">> >>)

M3 == Row(6, <<"m","3">>, sMedium, None, Num(48), Num(70), Num(600), Num(20), Num(1900),
          <<sDesign, sGraph>>,
          << <<"A","m","a","z","o","n">>, <<"M","e","t","a">> >>)

H1 == Row(7, <<"h","1">>, sHard, None, Num(35), Num(95), Num(50), Num(5), Num(2400),
          <<sTrie>>, <<>>)

H2 == Row(8, <<"h","2">>, sHard, None, Num(32), Num(72), Num(90), Num(3), Num(2100),
          <<sGraph, sShell>>,
          << <<"M","i","c","r","o","s","o","f","t">>, <<"A","p","p","l","e">> >>)

\* a problem without votes whose sub-scores equal those of M2
M4 == Row(9, <<"m","4">>, sMedium, None, Num(55), Num(90), None, None, None,
          <<sMath>>, << <<"A","p","p","l","e">> >>)

\* The catalogs the model starts from
Catalogs == { <<E1, E2, E3, M1, M2, M3, H1, H2>>, <<H2, M3, M2, E2>>, <<>>,
              <<M2, M1, M4>> }

\* the WHERE clause without "(p.status IS NULL OR p.status != 'ac')"
Matches_IncludingSolved(r, difficulty, acc_range, freq_min, like_ratio_min) ==
    /\ r.difficulty = difficulty
    /\ r.acceptance_rate.k = "num"
    /\ acc_range[1] <= r.acceptance_rate.n
    /\ r.acceptance_rate.n <= acc_range[2]
    /\ \/ r.frequency_bar.k = "none"
       \/ r.frequency_bar.n >= freq_min
    /\ \/ /\ r.likes.k = "num" /\ r.dislikes.k = "num"
          /\ r.dislikes.n > 0
          /\ r.likes.n >= like_ratio_min * r.dislikes.n
       \/ /\ r.likes.k = "num" /\ r.dislikes.k = "num"
          /\ r.dislikes.n = 0 /\ r.likes.n > 0
       \/ /\ r.likes.k = "none" /\ r.dislikes.k = "none"

\* the WHERE clause without "p.difficulty = %s"
Matches_AnyDifficulty(r, difficulty, acc_range, freq_min, like_ratio_min) ==
    /\ (r.status.k = "none" \/ r.status.s # sAc)
    /\ r.acceptance_rate.k = "num"
    /\ acc_range[1] <= r.acceptance_rate.n
    /\ r.acceptance_rate.n <= acc_range[2]
    /\ \/ r.frequency_bar.k = "none"
       \/ r.frequency_bar.n >= freq_min
    /\ \/ /\ r.likes.k = "num" /\ r.dislikes.k = "num"
          /\ r.dislikes.n > 0
          /\ r.likes.n >= like_ratio_min * r.dislikes.n
       \/ /\ r.likes.k = "num" /\ r.dislikes.k = "num"
          /\ r.dislikes.n = 0 /\ r.likes.n > 0
       \/ /\ r.likes.k = "none" /\ r.dislikes.k = "none"

\* The WHERE clause of the query
Matches(r, difficulty, acc_range, freq_min, like_ratio_min) ==
    /\ r.difficulty = difficulty
    /\ (r.status.k = "none" \/ r.status.s # sAc)
    /\ r.acceptance_rate.k = "num"
    /\ acc_range[1] <= r.acceptance_rate.n
    /\ r.acceptance_rate.n <= acc_range[2]
    /\ \/ r.frequency_bar.k = "none"
       \/ r.frequency_bar.n >= freq_min
    /\ \/ /\ r.likes.k = "num" /\ r.dislikes.k = "num"
          /\ r.dislikes.n > 0
          /\ r.likes.n >= like_ratio_min * r.dislikes.n
       \/ /\ r.likes.k = "num" /\ r.dislikes.k = "num"
          /\ r.dislikes.n = 0 /\ r.likes.n > 0
       \/ /\ r.likes.k = "none" /\ r.dislikes.k = "none"

\* ORDER BY p.frequency_bar DESC, p.acceptance_rate DESC: a comes strictly
\* before b (NULL sorts last in descending order)
OrderedBefore(a, b) ==
    LET fa == a.frequency_bar
        fb == b.frequency_bar
    IN  IF fa.k = "num" /\ fb.k = "num" /\ fa.n # fb.n THEN fa.n > fb.n
        ELSE IF fa.k # fb.k THEN fa.k = "num"
        ELSE a.acceptance_rate.n > b.acceptance_rate.n

\* insert r after every row that is not ordered after it
RECURSIVE InsertOrdered(_, _)
InsertOrdered(sorted, r) ==
    IF sorted = <<>> THEN <<r>>
    ELSE IF OrderedBefore(r, Head(sorted)) THEN <<r>> \o sorted
    ELSE <<Head(sorted)>> \o InsertOrdered(Tail(sorted), r)

RECURSIVE OrderRows(_)
OrderRows(rows) ==
    IF rows = <<>> THEN <<>>
    ELSE InsertOrdered(OrderRows(SubSeq(rows, 1, Len(rows) - 1)), rows[Len(rows)])

\* LIMIT n
Limit(rows, n) == SubSeq(rows, 1, Min(n, Len(rows)))

\* GROUP_CONCAT(DISTINCT name SEPARATOR ', '): NULL when nothing is joined
GroupConcat(names) == IF names = <<>> THEN None ELSE Str(Join(names))

\* The SELECT list: the dictionary the cursor returns for a row
SelectColumns(r) ==
    [key \in {"id", "title_slug", "status", "acceptance_rate", "frequency_bar",
              "topics", "companies", "likes", "dislikes", "rating"} |->
        CASE key = "id" -> Num(r.id)
          [] key = "title_slug" -> Str(r.title_slug)
          [] key = "status" -> r.status
          [] key = "acceptance_rate" -> r.acceptance_rate
          [] key = "frequency_bar" -> r.frequency_bar
          [] key = "topics" -> GroupConcat(r.topic_names)
          [] key = "companies" -> GroupConcat(r.company_names)
          [] key = "likes" -> r.likes
          [] key = "dislikes" -> r.dislikes
          [] OTHER -> r.rating]

\* The rows the query returns when it executes
RunQuery(rows, q) ==
    LET hits == SelectSeq(rows, LAMBDA r : Matches(r, q.difficulty, q.acc_range,
                                                    q.freq_min, q.like_ratio_min))
        page == Limit(OrderRows(hits), q.count)
    IN  [i \in 1..Len(page) |-> SelectColumns(page[i])]

\* the except clause missing: the storage error propagates
FetchError_Raises == [raised |-> "mysql.connector.Error", rows |-> <<>>, msgs |-> <<>>]

\* except mysql.connector.Error: print and return []
FetchError == [raised |-> "", rows |-> <<>>, msgs |-> <<"Error fetching problems">>]

\* DatabaseManager.get_quality_problems: [raised, rows, msgs]; ok is FALSE
\* when cursor.execute raises mysql.connector.Error
db_get_quality_problems(rows, q, ok) ==
    IF ok THEN [raised |-> "", rows |-> RunQuery(rows, q), msgs |-> <<>>]
    ELSE FetchError

----------------------------------------------------------------------------
(* selector/engine.py: ProblemSelector.get_quality_problems *)

\* the score also written over the rating of the record
WithScore_OverRating(p, value) ==
    [key \in DOMAIN p \cup {"quality_score"} |->
        IF key \in {"quality_score", "rating"} THEN Num(value) ELSE p[key]]

\* problem["quality_score"] = value
WithScore(p, value) ==
    [key \in DOMAIN p \cup {"quality_score"} |->
        IF key = "quality_score" THEN Num(value) ELSE p[key]]

\* the scoring loop: the first exception raised, "" if none
ScoringError(problems, weights) ==
    LET bad == {i \in 1..Len(problems) :
                    calculate_quality_score(problems[i], weights).raised # ""}
    IN  IF bad = {} THEN ""
        ELSE calculate_quality_score(
                 problems[CHOOSE i \in bad : \A j \in bad : i <= j], weights).raised

ScoreAll(problems, weights) ==
    [i \in 1..Len(problems) |->
        WithScore(problems[i], calculate_quality_score(problems[i], weights).value)]

\* insert p before the elements of equal score
RECURSIVE InsertByScore_TiesFirst(_, _)
InsertByScore_TiesFirst(sorted, p) ==
    IF sorted = <<>> THEN <<p>>
    ELSE IF p["quality_score"].n >= Head(sorted)["quality_score"].n
         THEN <<p>> \o sorted
         ELSE <<Head(sorted)>> \o InsertByScore_TiesFirst(Tail(sorted), p)

\* insert p behind every element whose score is at least p's score
RECURSIVE InsertByScore(_, _)
InsertByScore(sorted, p) ==
    IF sorted = <<>> THEN <<p>>
    ELSE IF p["quality_score"].n > Head(sorted)["quality_score"].n
         THEN <<p>> \o sorted
         ELSE <<Head(sorted)>> \o InsertByScore(Tail(sorted), p)

\* the sort left out
SortByScore_Unsorted(problems) == problems

\* problems.sort(key=lambda x: x["quality_score"], reverse=True): stable
RECURSIVE SortByScore(_)
SortByScore(problems) ==
    IF problems = <<>> THEN <<>>
    ELSE InsertByScore(SortByScore(SubSeq(problems, 1, Len(problems) - 1)),
                       problems[Len(problems)])

\* the slice written problems[:count - 1]
SliceTo_OneShort(problems, count) == SubSeq(problems, 1, Min(count - 1, Len(problems)))

\* problems[:count]
SliceTo(problems, count) ==
    IF count >= 0 THEN SubSeq(problems, 1, Min(count, Len(problems)))
    ELSE SubSeq(problems, 1, Max(Len(problems) + count, 0))

\* acc_range of a difficulty
AccRange(bracket_config, difficulty) ==
    IF difficulty = sEasy THEN <<0, 100>>
    ELSE IF difficulty = sMedium THEN bracket_config.medium_acc
    ELSE bracket_config.hard_acc

\* the query asking for count rows instead of count * 2
QueryFor_NoHeadroom(bracket_config, difficulty, count) ==
    [difficulty |-> difficulty,
     acc_range |-> AccRange(bracket_config, difficulty),
     freq_min |-> bracket_config.freq_min,
     like_ratio_min |-> bracket_config.like_ratio,
     count |-> count]

\* the storage query get_quality_problems issues
QueryFor(bracket_config, difficulty, count) ==
    [difficulty |-> difficulty,
     acc_range |-> AccRange(bracket_config, difficulty),
     freq_min |-> bracket_config.freq_min,
     like_ratio_min |-> bracket_config.like_ratio,
     count |-> count * 2]

\* ProblemSelector.get_quality_problems(rating_bracket, difficulty, count):
\* [raised, problems, queries, msgs]
get_quality_problems(brackets, weights, rows, rating_bracket, difficulty, count, ok) ==
    IF rating_bracket \notin DOMAIN brackets
    THEN [raised |-> "", problems |-> <<>>, queries |-> <<>>,
          msgs |-> <<"Invalid rating bracket">>]
    ELSE LET q == QueryFor(brackets[rating_bracket], difficulty, count)
             fetched == db_get_quality_problems(rows, q, ok)
         IN  IF fetched.raised # ""
             THEN [raised |-> fetched.raised, problems |-> <<>>,
                   queries |-> <<q>>, msgs |-> fetched.msgs]
             ELSE IF ScoringError(fetched.rows, weights) # ""
             THEN [raised |-> ScoringError(fetched.rows, weights),
                   problems |-> <<>>, queries |-> <<q>>, msgs |-> fetched.msgs]
             ELSE [raised |-> "",
                   problems |-> SliceTo(SortByScore(ScoreAll(fetched.rows, weights)),
                                        count),
                   queries |-> <<q>>, msgs |-> fetched.msgs]

----------------------------------------------------------------------------
(* selector/engine.py: ProblemSelector.generate_problem_list *)

\* RawCounts rounding to the nearest integer instead of truncating
RawCounts_Rounded(bracket_config, problem_count) ==
    [easy |-> IntTrunc(problem_count * bracket_config.easy_pct + 50, 100),
     medium |-> IntTrunc(problem_count * bracket_config.medium_pct + 50, 100),
     hard |-> IntTrunc(problem_count * bracket_config.hard_pct + 50, 100)]

\* int(problem_count * pct / 100) for the three difficulties
RawCounts(bracket_config, problem_count) ==
    [easy |-> IntTrunc(problem_count * bracket_config.easy_pct, 100),
     medium |-> IntTrunc(problem_count * bracket_config.medium_pct, 100),
     hard |-> IntTrunc(problem_count * bracket_config.hard_pct, 100)]

\* Reallocate adding diff // 2 to medium and to hard alike
Reallocate_HalfTwice(raw, problem_count) ==
    LET total == raw.easy + raw.medium + raw.hard
        diff == problem_count - total
    IN  IF total < problem_count
        THEN IF raw.medium > 0
             THEN [easy |-> raw.easy,
                   medium |-> raw.medium + diff \div 2,
                   hard |-> raw.hard + diff \div 2]
             ELSE [easy |-> raw.easy, medium |-> raw.medium, hard |-> raw.hard + diff]
        ELSE raw

\* Reallocate without the medium branch
Reallocate_AllToHard(raw, problem_count) ==
    LET total == raw.easy + raw.medium + raw.hard
        diff == problem_count - total
    IN  IF total < problem_count
        THEN [easy |-> raw.easy, medium |-> raw.medium, hard |-> raw.hard + diff]
        ELSE raw

\* "Ensure we have at least the specified total number of problems"
Reallocate(raw, problem_count) ==
    LET total == raw.easy + raw.medium + raw.hard
        diff == problem_count - total
    IN  IF total < problem_count
        THEN IF raw.medium > 0
             THEN [easy |-> raw.easy,
                   medium |-> raw.medium + diff \div 2,
                   hard |-> raw.hard + (diff - diff \div 2)]
             ELSE [easy |-> raw.easy, medium |-> raw.medium, hard |-> raw.hard + diff]
        ELSE raw

\* Selection whose total_count leaves the hard segment out
Selection_WithoutHard(rating_bracket, easy, medium, hard) ==
    [rating_bracket |-> rating_bracket,
     total_count |-> Len(easy) + Len(medium),
     easy |-> easy, medium |-> medium, hard |-> hard]

\* the dictionary generate_problem_list returns for a known bracket
Selection(rating_bracket, easy, medium, hard) ==
    [rating_bracket |-> rating_bracket,
     total_count |-> Len(easy) + Len(medium) + Len(hard),
     easy |-> easy, medium |-> medium, hard |-> hard]

NoCounts == [raw_easy |-> 0, raw_medium |-> 0, raw_hard |-> 0,
             easy |-> 0, medium |-> 0, hard |-> 0]

NoSegs == [easy |-> <<>>, medium |-> <<>>, hard |-> <<>>]

NoResult == [status |-> "none", exc |-> "", value |-> EmptyDict]

NoFile == [status |-> "none", content |-> <<>>]

NoScore == [status |-> "none", raised |-> "", value |-> 0, parts |-> NoParts]

\* the unknown-bracket guard missing: the table lookup raises KeyError
InvalidBracketResult_KeyError == [status |-> "raised", exc |-> "KeyError", value |-> EmptyDict]

\* lines 182-184: what the call yields for an unknown bracket, return {}
InvalidBracketResult == [status |-> "returned", exc |-> "", value |-> EmptyDict]

\* generate_problem_list(rating_bracket, problem_count), up to the first fetch
Generate(rating_bracket, problem_count) ==
    /\ pc = "idle"
    /\ args' = [rating_bracket |-> rating_bracket, problem_count |-> problem_count]
    /\ IF rating_bracket \notin DOMAIN rating_brackets
       THEN /\ console' = Append(console, "Invalid rating bracket")
            /\ result' = InvalidBracketResult
            /\ pc' = "done"
            /\ UNCHANGED counts
       ELSE LET raw == RawCounts(rating_brackets[rating_bracket], problem_count)
                final == Reallocate(raw, problem_count)
            IN  /\ counts' = [raw_easy |-> raw.easy, raw_medium |-> raw.medium,
                              raw_hard |-> raw.hard, easy |-> final.easy,
                              medium |-> final.medium, hard |-> final.hard]
                /\ pc' = "easy"
                /\ UNCHANGED <<console, result>>
    /\ UNCHANGED <<rb_file, tw_file, rating_brackets, topic_weights, db, segs,
                   failed, queries, problem, score_out,
                   out_file, updateVars, fetchVars, listVars>>
    /\ UNCHANGED mainVars

\* the guard written "if d_count >= 0"
ShouldFetch_NonNegative(count) == count >= 0

\* the guard "if d_count > 0" of lines 205-207
ShouldFetch(count) == count > 0

\* the hard fetch placed before the medium fetch
NextPc_HardSecond(seg) ==
    IF seg = "easy" THEN "hard" ELSE IF seg = "hard" THEN "medium" ELSE "assemble"

NextPc(seg) == IF seg = "easy" THEN "medium" ELSE IF seg = "medium" THEN "hard" ELSE "assemble"

DifficultyOf(seg) == IF seg = "easy" THEN sEasy ELSE IF seg = "medium" THEN sMedium ELSE sHard

\* one of lines 205-207:
\* self.get_quality_problems(rating_bracket, D, d_count) if d_count > 0 else []
Fetch(seg) ==
    /\ pc = seg
    /\ IF ShouldFetch(counts[seg])
       THEN \E ok \in BOOLEAN :
              LET out == get_quality_problems(rating_brackets, topic_weights, db,
                                              args.rating_bracket, DifficultyOf(seg),
                                              counts[seg], ok)
              IN  /\ queries' = queries \o out.queries
                  /\ console' = console \o out.msgs
                  /\ failed' = IF ok THEN failed ELSE failed \cup {seg}
                  /\ IF out.raised # ""
                     THEN /\ pc' = "done"
                          /\ result' = [status |-> "raised", exc |-> out.raised,
                                        value |-> EmptyDict]
                          /\ UNCHANGED segs
                     ELSE /\ pc' = NextPc(seg)
                          /\ segs' = [segs EXCEPT ![seg] = out.problems]
                          /\ UNCHANGED result
       ELSE /\ pc' = NextPc(seg)
            /\ segs' = [segs EXCEPT ![seg] = <<>>]
            /\ UNCHANGED <<queries, console, failed, result>>
    /\ UNCHANGED <<rb_file, tw_file, rating_brackets, topic_weights, db, args,
                   counts, problem, score_out,
                   out_file, updateVars, fetchVars, listVars>>
    /\ UNCHANGED mainVars

\* lines 209-215: assemble and return the dictionary
Return ==
    /\ pc = "assemble"
    /\ result' = [status |-> "returned", exc |-> "",
                  value |-> Selection(args.rating_bracket, segs.easy, segs.medium,
                                      segs.hard)]
    /\ pc' = "done"
    /\ UNCHANGED <<rb_file, tw_file, rating_brackets, topic_weights, db, args,
                   counts, segs, failed, queries, console, problem, score_out,
                   out_file, updateVars, fetchVars, listVars>>
    /\ UNCHANGED mainVars

----------------------------------------------------------------------------
(* The selector: construction and one generate_problem_list call *)

\* percentages of the bracket a custom configuration file defines
CustomPcts == {<<34, 33, 33>>, <<30, 30, 30>>, <<50, 50, 50>>, <<0, 0, 100>>,
               <<100, 100, 0>>}

CustomBrackets(pcts) ==
    [b \in {"custom"} |->
        [easy_pct |-> pcts[1], medium_pct |-> pcts[2], hard_pct |-> pcts[3],
         medium_acc |-> <<30, 60>>, hard_acc |-> <<20, 50>>,
         like_ratio |-> 5, freq_min |-> 50]]

RbFiles ==
    {[kind |-> k, content |-> EmptyDict] : k \in FileKinds \ {"valid"}}
    \cup {[kind |-> "valid", content |-> CustomBrackets(t)] : t \in CustomPcts}

CustomWeights == sArray :> 10 @@ sShell :> 20

TwFiles ==
    {[kind |-> k, content |-> EmptyDict] : k \in FileKinds \ {"valid"}}
    \cup {[kind |-> "valid", content |-> CustomWeights]}

Labels == DOMAIN default_brackets \cup {"custom", "9999-9999"}

Init ==
    /\ rb_file \in RbFiles
    /\ tw_file \in TwFiles
    /\ rating_brackets = load_rating_brackets(rb_file)
    /\ topic_weights = load_topic_weights(tw_file)
    /\ console = load_rating_brackets_msgs(rb_file) \o load_topic_weights_msgs(tw_file)
    /\ db \in Catalogs
    /\ pc = "idle"
    /\ args = [rating_bracket |-> "", problem_count |-> 0]
    /\ counts = NoCounts
    /\ segs = NoSegs
    /\ failed = {}
    /\ queries = <<>>
    /\ result = NoResult
    /\ problem = EmptyDict
    /\ score_out = NoScore
    /\ out_file = NoFile
    /\ MainIdle /\ UpdateIdle /\ FetchIdle /\ ListIdle

Next ==
    \/ \E label \in Labels, n \in (-MaxNeg)..MaxCount : Generate(label, n)
    \/ Fetch("easy")
    \/ Fetch("medium")
    \/ Fetch("hard")
    \/ Return

Spec == Init /\ [][Next]_vars

----------------------------------------------------------------------------
(* selector/engine.py: ProblemSelector.save_to_file *)

\* f.write(f"{problem['title_slug']}\\n") for every problem of a segment
\* that has a title_slug
RECURSIVE WriteSegment(_)
WriteSegment(problems) ==
    IF problems = <<>> THEN <<>>
    ELSE (IF "title_slug" \in DOMAIN Head(problems)
          THEN Head(problems)["title_slug"].s \o <<"\n">>
          ELSE <<>>)
         \o WriteSegment(Tail(problems))

\* the segments written in the order hard, medium, easy
WriteSelection_HardFirst(problems_by_difficulty) ==
    (IF "hard" \in DOMAIN problems_by_difficulty
     THEN WriteSegment(problems_by_difficulty["hard"]) ELSE <<>>)
    \o (IF "medium" \in DOMAIN problems_by_difficulty
        THEN WriteSegment(problems_by_difficulty["medium"]) ELSE <<>>)
    \o (IF "easy" \in DOMAIN problems_by_difficulty
        THEN WriteSegment(problems_by_difficulty["easy"]) ELSE <<>>)

\* lines 285-289: for difficulty in ["easy", "medium", "hard"]
WriteSelection(problems_by_difficulty) ==
    (IF "easy" \in DOMAIN problems_by_difficulty
     THEN WriteSegment(problems_by_difficulty["easy"]) ELSE <<>>)
    \o (IF "medium" \in DOMAIN problems_by_difficulty
        THEN WriteSegment(problems_by_difficulty["medium"]) ELSE <<>>)
    \o (IF "hard" \in DOMAIN problems_by_difficulty
        THEN WriteSegment(problems_by_difficulty["hard"]) ELSE <<>>)

\* How the file system answers: "ok", "makedirs" (os.makedirs raises) or
\* "open" (open(file_path, 'w') raises)
IoOutcomes == {"ok", "makedirs", "open"}

\* save_to_file(problems_by_difficulty, file_path): [status, content, msgs]
save_to_file(problems_by_difficulty, path_given, io) ==
    IF ~path_given
    THEN [status |-> "skipped", content |-> <<>>,
          msgs |-> <<"Error: Output file path is empty or None">>]
    ELSE IF io = "makedirs"
    THEN [status |-> "failed", content |-> <<>>,
          msgs |-> <<"Error saving problems to file">>]
    ELSE IF DOMAIN problems_by_difficulty = {}
    THEN [status |-> "skipped", content |-> <<>>,
          msgs |-> <<"Error: Invalid problem data">>]
    ELSE IF io = "open"
    THEN [status |-> "failed", content |-> <<>>,
          msgs |-> <<"Error saving problems to file">>]
    ELSE [status |-> "written", content |-> WriteSelection(problems_by_difficulty),
          msgs |-> <<"Saved problems">>]

\* selector.save_to_file(problems, args.output) after generate_problem_list
\* returned (cli/main.py line 119)
SaveToFile(path_given, io) ==
    /\ pc = "done"
    /\ result.status = "returned"
    /\ out_file' = [status |-> save_to_file(result.value, path_given, io).status,
                    content |-> save_to_file(result.value, path_given, io).content]
    /\ console' = console \o save_to_file(result.value, path_given, io).msgs
    /\ pc' = "saved"
    /\ UNCHANGED <<rb_file, tw_file, rating_brackets, topic_weights, db, args,
                   counts, segs, failed, queries, result, problem, score_out,
                   updateVars, fetchVars, listVars>>
    /\ UNCHANGED mainVars

InitSave ==
    /\ Init
    /\ rb_file.kind \in {"nopath", "valid"}
    /\ tw_file.kind = "nopath"

NextSave ==
    \/ Next
    \/ \E path_given \in BOOLEAN, io \in IoOutcomes : SaveToFile(path_given, io)

SpecSave == InitSave /\ [][NextSave]_vars

----------------------------------------------------------------------------
(* ProblemSelector.__init__ on every kind of configuration file *)

RbFilesAll ==
    {[kind |-> k, content |-> EmptyDict] : k \in {"nopath", "missing"} \cup FailKinds}
    \cup {[kind |-> "valid", content |-> CustomBrackets(t)] : t \in CustomPcts}

TwFilesAll ==
    {[kind |-> k, content |-> EmptyDict] :
        k \in {"nopath", "missing", "unreadable", "invalid"}}
    \cup {[kind |-> "valid", content |-> CustomWeights]}

InitLoad ==
    /\ rb_file \in RbFilesAll
    /\ tw_file \in TwFilesAll
    /\ rating_brackets = EmptyDict
    /\ topic_weights = EmptyDict
    /\ console = <<>>
    /\ db \in Catalogs
    /\ pc = "new"
    /\ args = [rating_bracket |-> "", problem_count |-> 0]
    /\ counts = NoCounts
    /\ segs = NoSegs
    /\ failed = {}
    /\ queries = <<>>
    /\ result = NoResult
    /\ problem = EmptyDict
    /\ score_out = NoScore
    /\ out_file = NoFile
    /\ MainIdle /\ UpdateIdle /\ FetchIdle /\ ListIdle

\* ProblemSelector(db_manager, rating_brackets_path, topic_weights_path)
Construct ==
    /\ pc = "new"
    /\ IF LoaderEscapes(rb_file) # ""
       THEN /\ result' = [status |-> "raised", exc |-> LoaderEscapes(rb_file),
                          value |-> EmptyDict]
            /\ pc' = "done"
            /\ UNCHANGED <<rating_brackets, topic_weights, console>>
       ELSE IF LoaderEscapes(tw_file) # ""
       THEN /\ result' = [status |-> "raised", exc |-> LoaderEscapes(tw_file),
                          value |-> EmptyDict]
            /\ pc' = "done"
            /\ console' = load_rating_brackets_msgs(rb_file)
            /\ UNCHANGED <<rating_brackets, topic_weights>>
       ELSE /\ rating_brackets' = load_rating_brackets(rb_file)
            /\ topic_weights' = load_topic_weights(tw_file)
            /\ console' = load_rating_brackets_msgs(rb_file)
                              \o load_topic_weights_msgs(tw_file)
            /\ pc' = "idle"
            /\ UNCHANGED result
    /\ UNCHANGED <<rb_file, tw_file, db, args, counts, segs, failed, queries,
                   problem, score_out,
                   out_file, updateVars, fetchVars, listVars>>
    /\ UNCHANGED mainVars

NextLoad == Construct

SpecLoad == InitLoad /\ [][NextLoad]_vars

----------------------------------------------------------------------------
(* cli/main.py: selector_main *)

\* display_problem_list slices problem.get("topics", "") and
\* problem.get("companies", ""): a candidate whose topics or companies are
\* None makes it raise TypeError
DisplayRaises(problems_by_difficulty) ==
    /\ DOMAIN problems_by_difficulty # {}
    /\ \E seg \in {"easy", "medium", "hard"} :
          \E j \in 1..Len(problems_by_difficulty[seg]) :
              \/ problems_by_difficulty[seg][j]["topics"] = None
              \/ problems_by_difficulty[seg][j]["companies"] = None

\* what display_problem_list prints for an empty selection
display_msgs(problems_by_difficulty) ==
    IF DOMAIN problems_by_difficulty = {} THEN <<"No problems to display">>
    ELSE <<>>

InitMain ==
    /\ rb_file \in {[kind |-> "nopath", content |-> EmptyDict],
                    [kind |-> "valid", content |-> CustomBrackets(<<34, 33, 33>>)]}
    /\ tw_file = [kind |-> "nopath", content |-> EmptyDict]
    /\ rating_brackets = EmptyDict
    /\ topic_weights = EmptyDict
    /\ console = <<>>
    /\ db \in Catalogs
    /\ pc = "new"
    /\ args = [rating_bracket |-> "", problem_count |-> 0]
    /\ counts = NoCounts
    /\ segs = NoSegs
    /\ failed = {}
    /\ queries = <<>>
    /\ result = NoResult
    /\ problem = EmptyDict
    /\ score_out = NoScore
    /\ out_file = NoFile
    /\ main_pc = "start"
    /\ connect_result = "none"
    /\ close_calls = 0
    /\ exit_status = "running"
    /\ UpdateIdle /\ FetchIdle /\ ListIdle

\* lines 98-100: if not db_manager.connect(): sys.exit(1); ok is FALSE when
\* connect() catches mysql.connector.Error and returns False
Connect(ok) ==
    /\ main_pc = "start"
    /\ IF ok
       THEN /\ connect_result' = "ok"
            /\ console' = Append(console, "Connected to database successfully")
            /\ main_pc' = "try"
            /\ UNCHANGED exit_status
       ELSE /\ connect_result' = "failed"
            /\ console' = Append(console, "Database connection error")
            /\ main_pc' = "exited"
            /\ exit_status' = "exit 1"
    /\ UNCHANGED <<rb_file, tw_file, rating_brackets, topic_weights, db, pc, args,
                   counts, segs, failed, queries, result, problem, score_out,
                   out_file, close_calls, updateVars, fetchVars, listVars>>

\* lines 115-116: if args.display: selector.display_problem_list(problems)
Display(display) ==
    /\ main_pc = "try"
    /\ pc = "done"
    /\ result.status = "returned"
    /\ IF display /\ DisplayRaises(result.value)
       THEN /\ result' = [status |-> "raised", exc |-> "TypeError", value |-> EmptyDict]
            /\ UNCHANGED <<main_pc, console>>
       ELSE /\ main_pc' = "shown"
            /\ console' = IF display THEN console \o display_msgs(result.value)
                           ELSE console
            /\ UNCHANGED result
    /\ UNCHANGED <<rb_file, tw_file, rating_brackets, topic_weights, db, pc, args,
                   counts, segs, failed, queries, problem, score_out, out_file,
                   connect_result, close_calls, exit_status, updateVars, fetchVars,
                   listVars>>

\* KeyboardInterrupt raised while the try block of lines 102-119 runs
Interrupt ==
    /\ main_pc \in {"try", "shown"}
    /\ pc # "saved"
    /\ result.status # "raised"
    /\ result' = [status |-> "raised", exc |-> "KeyboardInterrupt", value |-> EmptyDict]
    /\ pc' = "done"
    /\ UNCHANGED <<rb_file, tw_file, rating_brackets, topic_weights, db, args,
                   counts, segs, failed, queries, console, problem, score_out,
                   out_file, mainVars, updateVars, fetchVars, listVars>>

\* db_manager.close() placed after save_to_file inside the try block
Finally_OnlyAfterSave ==
    /\ main_pc \in {"try", "shown"}
    /\ pc = "saved" \/ result.status = "raised"
    /\ close_calls' = IF result.status = "raised" THEN close_calls ELSE close_calls + 1
    /\ console' = IF result.status = "raised" THEN console
                   ELSE Append(console, "Database connection closed")
    /\ exit_status' = IF result.status # "raised" THEN "returned"
                       ELSE IF result.exc = "KeyboardInterrupt" THEN "exit 0"
                       ELSE "exit 1"
    /\ main_pc' = "exited"
    /\ UNCHANGED <<rb_file, tw_file, rating_brackets, topic_weights, db, pc, args,
                   counts, segs, failed, queries, result, problem, score_out,
                   out_file, connect_result, updateVars, fetchVars, listVars>>

\* lines 121-130: finally: db_manager.close(), then the except clauses:
\* KeyboardInterrupt exits with 0, any other exception with 1
Finally ==
    /\ main_pc \in {"try", "shown"}
    /\ pc = "saved" \/ result.status = "raised"
    /\ close_calls' = close_calls + 1
    /\ console' = Append(console, "Database connection closed")
    /\ exit_status' = IF result.status # "raised" THEN "returned"
                       ELSE IF result.exc = "KeyboardInterrupt" THEN "exit 0"
                       ELSE "exit 1"
    /\ main_pc' = "exited"
    /\ UNCHANGED <<rb_file, tw_file, rating_brackets, topic_weights, db, pc, args,
                   counts, segs, failed, queries, result, problem, score_out,
                   out_file, connect_result, updateVars, fetchVars, listVars>>

NextMain ==
    \/ \E ok \in BOOLEAN : Connect(ok)
    \/ main_pc = "try" /\ Construct
    \/ main_pc = "try" /\ \E label \in Labels, n \in (-MaxNeg)..MaxCount : Generate(label, n)
    \/ main_pc = "try" /\ Fetch("easy")
    \/ main_pc = "try" /\ Fetch("medium")
    \/ main_pc = "try" /\ Fetch("hard")
    \/ main_pc = "try" /\ Return
    \/ \E display \in BOOLEAN : Display(display)
    \/ main_pc = "shown" /\ \E path_given \in BOOLEAN, io \in IoOutcomes :
                                SaveToFile(path_given, io)
    \/ Interrupt
    \/ Finally

SpecMain == InitMain /\ [][NextMain]_vars

----------------------------------------------------------------------------
(* core/database.py: DatabaseManager.update_problem, called for one problem *)
(* after the other on one connection (cli/commands.py, handle_update_db)    *)

\* number of problems handle_update_db passes to update_problem
MaxProblems == 3

\* the selector is constructed and idle
SelectorIdle ==
    /\ rb_file = [kind |-> "nopath", content |-> EmptyDict]
    /\ tw_file = [kind |-> "nopath", content |-> EmptyDict]
    /\ rating_brackets = load_rating_brackets(rb_file)
    /\ topic_weights = load_topic_weights(tw_file)
    /\ console = <<>>
    /\ db = <<>>
    /\ pc = "idle"
    /\ args = [rating_bracket |-> "", problem_count |-> 0]
    /\ counts = NoCounts
    /\ segs = NoSegs
    /\ failed = {}
    /\ queries = <<>>
    /\ result = NoResult
    /\ problem = EmptyDict
    /\ score_out = NoScore
    /\ out_file = NoFile

\* The statements update_problem executes for a problem with or without a
\* topic tag and a company tag, in order
Statements(has_topic, has_company) ==
    <<"problem_sql">>
    \o (IF has_topic THEN <<"topic_sql", "problem_topic_sql">> ELSE <<>>)
    \o (IF has_company THEN <<"company_sql", "problem_company_sql">> ELSE <<>>)
    \o <<"commit">>

\* the table a statement writes to
TableOf(stmt) ==
    CASE stmt = "problem_sql" -> "problems"
      [] stmt = "topic_sql" -> "topics"
      [] stmt = "problem_topic_sql" -> "problem_topics"
      [] stmt = "company_sql" -> "companies"
      [] OTHER -> "problem_companies"

\* What can go wrong in a call: nothing, an exception while the row is
\* prepared (before the first execute), or one statement raising
UpdateFailures ==
    {"none", "prepare", "problem_sql", "topic_sql", "problem_topic_sql",
     "company_sql", "problem_company_sql", "commit"}

\* the rows of call written by the statements before position n
RowsBefore(call, stmts, n) ==
    {<<call, TableOf(stmts[k])>> : k \in {m \in 1..Len(stmts) : m < n}}

\* the position of a statement in stmts, 0 when it is not executed
PositionIn(stmts, stmt) ==
    IF \E k \in 1..Len(stmts) : stmts[k] = stmt
    THEN CHOOSE k \in 1..Len(stmts) : stmts[k] = stmt
    ELSE 0

\* update_problem(problem): the value returned, the rows the call wrote and
\* what it did to the transaction.  id_found is FALSE when lastrowid is 0
\* and get_problem_id returns None (lines 293-302).
update_problem(call, has_topic, has_company, fail_at, id_found) ==
    LET stmts == Statements(has_topic, has_company)
    IN  IF fail_at \in {"prepare", "problem_sql"}
        THEN [returned |-> FALSE, rows |-> {}, effect |-> "rollback"]
        ELSE IF ~id_found
        THEN [returned |-> FALSE, rows |-> {<<call, "problems">>}, effect |-> "none"]
        ELSE IF PositionIn(stmts, fail_at) > 0
        THEN [returned |-> FALSE,
              rows |-> RowsBefore(call, stmts, PositionIn(stmts, fail_at)),
              effect |-> "rollback"]
        ELSE [returned |-> TRUE, rows |-> RowsBefore(call, stmts, Len(stmts)),
              effect |-> "commit"]

\* if db_manager.update_problem(problem): ... (commands.py line 196)
UpdateProblem(has_topic, has_company, fail_at, id_found) ==
    /\ Len(upd_log) < MaxProblems
    /\ LET out == update_problem(Len(upd_log) + 1, has_topic, has_company,
                                 fail_at, id_found)
       IN  /\ tx_pending' = IF out.effect = "none" THEN tx_pending \cup out.rows
                             ELSE {}
           /\ tx_committed' = IF out.effect = "commit"
                               THEN tx_committed \cup tx_pending \cup out.rows
                               ELSE tx_committed
           /\ upd_log' = Append(upd_log, [returned |-> out.returned,
                                          rows |-> out.rows])
    /\ UNCHANGED <<selectorVars, mainVars, fetchVars, listVars>>

InitUpdate == SelectorIdle /\ MainIdle /\ UpdateIdle /\ FetchIdle /\ ListIdle

NextUpdate ==
    \E has_topic \in BOOLEAN, has_company \in BOOLEAN, fail_at \in UpdateFailures,
       id_found \in BOOLEAN :
        UpdateProblem(has_topic, has_company, fail_at, id_found)

SpecUpdate == InitUpdate /\ [][NextUpdate]_vars

----------------------------------------------------------------------------
(* api/client.py: LeetCodeAPIClient.fetch_problems *)

\* limit = 100: number of problems per request
limit == 100

\* the questions of the page at offset s, n of them
PageOf(s, n) == [j \in 1..n |-> <<s, j>>]

\* the batch put in front of the problems already collected
Extend_Prepend(collected, batch) == batch \o collected

\* problems.extend(batch_problems)
Extend(collected, batch) == collected \o batch

\* totals the first response reports
Totals == {0, 1, 100, 101, 250, 300}

\* How a request ends: the page is received ("ok"), requests raises
\* RequestException, the body holds "errors", the body holds no
\* problemsetQuestionList (first request only), the page holds no questions
\* (later requests), or handling the body raises another exception (a null
\* where an object is expected)
FirstKinds == {"ok", "http_error", "graphql_errors", "no_data", "malformed"}

LaterKinds == {"ok", "empty", "http_error", "graphql_errors", "malformed"}

InitFetch ==
    /\ SelectorIdle /\ MainIdle /\ UpdateIdle /\ ListIdle
    /\ fetch_pc = "start"
    /\ skip = 0
    /\ total_problems = 0
    /\ fetched_problems = <<>>
    /\ posted = <<>>
    /\ fetch_out = [status |-> "none", value |-> <<>>]

\* lines 163-202: the first request, up to the first test of the while loop
FirstPage(kind, total, n) ==
    /\ fetch_pc = "start"
    /\ posted' = <<[skip |-> skip, kind |-> kind, n |-> IF kind = "ok" THEN n ELSE 0]>>
    /\ IF kind = "ok"
       THEN /\ total_problems' = total
            /\ fetched_problems' = Extend(fetched_problems, PageOf(skip, n))
            /\ skip' = skip + limit
            /\ IF skip' < total_problems'
               THEN fetch_pc' = "loop" /\ UNCHANGED fetch_out
               ELSE /\ fetch_pc' = "done"
                    /\ fetch_out' = [status |-> "returned", value |-> fetched_problems']
       ELSE /\ fetch_pc' = "done"
            /\ fetch_out' = [status |-> "returned", value |-> <<>>]
            /\ UNCHANGED <<skip, total_problems, fetched_problems>>
    /\ UNCHANGED <<selectorVars, mainVars, updateVars, listVars>>

\* lines 203-247: one turn of the while loop, up to the next test of the
\* loop condition or the return
NextPage(kind, n) ==
    /\ fetch_pc = "loop"
    /\ posted' = Append(posted, [skip |-> skip, kind |-> kind,
                                 n |-> IF kind = "ok" THEN n ELSE 0])
    /\ IF kind = "ok"
       THEN /\ fetched_problems' = Extend(fetched_problems, PageOf(skip, n))
            /\ skip' = skip + limit
            /\ IF skip' < total_problems
               THEN fetch_pc' = "loop" /\ UNCHANGED fetch_out
               ELSE /\ fetch_pc' = "done"
                    /\ fetch_out' = [status |-> "returned", value |-> fetched_problems']
       ELSE /\ fetch_pc' = "done"
            /\ fetch_out' = [status |-> "returned",
                             value |-> IF kind = "malformed" THEN <<>>
                                       ELSE fetched_problems]
            /\ UNCHANGED <<skip, fetched_problems>>
    /\ UNCHANGED <<total_problems, selectorVars, mainVars, updateVars, listVars>>

NextFetch ==
    \/ \E kind \in FirstKinds, total \in Totals, n \in 0..2 : FirstPage(kind, total, n)
    \/ \E kind \in LaterKinds, n \in 1..2 : NextPage(kind, n)

\* every request returns, so the call keeps taking steps
SpecFetch == InitFetch /\ [][NextFetch]_vars /\ WF_vars(NextFetch)

----------------------------------------------------------------------------
(* cli/commands.py: handle_add_to_list *)

\* number of lines in the problems file
MaxInputs == 3

\* A line of the problems file is a numeric id or a slug
RECURSIVE InputsOfLength(_)
InputsOfLength(n) ==
    IF n = 0 THEN {<<>>}
    ELSE {Append(s, x) : s \in InputsOfLength(n - 1), x \in {"id", "slug"}}

InputFiles == UNION {InputsOfLength(n) : n \in 0..MaxInputs}

\* values of --delay (type=float, not validated)
Delays == {0, 1, -1}

\* get_problem_id(problem_input): the error it returns; a numeric input is
\* returned as it is, a slug is looked up and found or not
get_problem_id_error(problem_input, found) ==
    IF problem_input = "id" THEN FALSE ELSE ~found

\* time.sleep(secs) raises ValueError for a negative length
SleepRaises(secs) == secs < 0

InitList ==
    /\ SelectorIdle /\ MainIdle /\ UpdateIdle /\ FetchIdle
    /\ list_pc = "start"
    /\ problem_inputs = <<>>
    /\ delay \in Delays
    /\ list_i = 0
    /\ success_count = 0
    /\ fail_count = 0
    /\ add_calls = <<>>
    /\ resolve_errors = <<>>

\* lines 73-89: verify_auth, load_problem_slugs, the counters set to 0
Load(auth_ok, lines) ==
    /\ list_pc = "start"
    /\ IF auth_ok
       THEN /\ problem_inputs' = lines
            /\ list_pc' = IF lines = <<>> THEN "done" ELSE "loop"
       ELSE /\ list_pc' = "done"
            /\ UNCHANGED problem_inputs
    /\ UNCHANGED <<delay, list_i, success_count, fail_count, add_calls,
                   resolve_errors, selectorVars, mainVars, updateVars, fetchVars>>

\* lines 102-121: one turn of the for loop
Process(found, added) ==
    /\ list_pc = "loop"
    /\ list_i' = list_i + 1
    /\ LET error == get_problem_id_error(problem_inputs[list_i'], found)
       IN  /\ resolve_errors' = Append(resolve_errors, error)
           /\ IF error
              THEN /\ fail_count' = fail_count + 1
                   /\ list_pc' = IF list_i' < Len(problem_inputs) THEN "loop" ELSE "done"
                   /\ UNCHANGED <<success_count, add_calls>>
              ELSE /\ add_calls' = Append(add_calls, list_i')
                   /\ success_count' = IF added THEN success_count + 1 ELSE success_count
                   /\ fail_count' = IF added THEN fail_count ELSE fail_count + 1
                   /\ list_pc' = IF list_i' < Len(problem_inputs)
                                  THEN IF SleepRaises(delay) THEN "raised" ELSE "loop"
                                  ELSE "done"
    /\ UNCHANGED <<problem_inputs, delay, selectorVars, mainVars, updateVars,
                   fetchVars>>

NextList ==
    \/ \E auth_ok \in BOOLEAN, lines \in InputFiles : Load(auth_ok, lines)
    \/ \E found \in BOOLEAN, added \in BOOLEAN : Process(found, added)

SpecList == InitList /\ [][NextList]_vars

----------------------------------------------------------------------------
(* calculate_quality_score called directly on one record *)

Absent == [k |-> "absent", n |-> 0, s |-> <<>>]

sJunk == <<"a","b","c">>

FreqOpts == {Absent, None, Num(40), Num(100), Str(<<"7","0">>), Str(sJunk)}

AccOpts == {Absent, None, Num(20), Num(50), Num(75), Str(sJunk)}

LikesOpts == {Absent, Num(10), Str(sJunk)}

DislikesOpts == {Absent, None, Num(0), Num(1), Num(5)}

RatingOpts == {Absent, None, Num(2100)}

DifficultyOpts == {Absent, None, Str(sEasy), Str(sMedium), Str(sHard)}

TopicsOpts == {Absent, None, Str(<<>>), Str(Join(<<sArray, sMath>>)), Num(7)}

CompaniesOpts == {Absent, Str(Join(<< <<"G","o","o","g","l","e">>, <<"M","e","t","a">> >>))}

\* the dictionary holding the fields of f that are not Absent
MakeDict(f) == [key \in {x \in DOMAIN f : f[x] # Absent} |-> f[key]]

ScoreInputs ==
    {MakeDict(f) : f \in [frequency_bar : FreqOpts, acceptance_rate : AccOpts,
                          likes : LikesOpts, dislikes : DislikesOpts,
                          rating : RatingOpts, difficulty : DifficultyOpts,
                          topics : TopicsOpts, companies : CompaniesOpts]}

InitScore ==
    /\ rb_file = [kind |-> "nopath", content |-> EmptyDict]
    /\ tw_file \in {[kind |-> "nopath", content |-> EmptyDict],
                    [kind |-> "valid", content |-> CustomWeights]}
    /\ rating_brackets = load_rating_brackets(rb_file)
    /\ topic_weights = load_topic_weights(tw_file)
    /\ console = <<>>
    /\ db = <<>>
    /\ pc = "idle"
    /\ args = [rating_bracket |-> "", problem_count |-> 0]
    /\ counts = NoCounts
    /\ segs = NoSegs
    /\ failed = {}
    /\ queries = <<>>
    /\ result = NoResult
    /\ problem \in ScoreInputs
    /\ score_out = NoScore
    /\ out_file = NoFile
    /\ MainIdle /\ UpdateIdle /\ FetchIdle /\ ListIdle

\* score = calculate_quality_score(problem, topic_weights)
Score ==
    /\ score_out.status = "none"
    /\ score_out' = [status |-> "done",
                     raised |-> calculate_quality_score(problem, topic_weights).raised,
                     value |-> calculate_quality_score(problem, topic_weights).value,
                     parts |-> IF calculate_quality_score(problem, topic_weights).raised = ""
                               THEN SubScores(problem, topic_weights) ELSE NoParts]
    /\ UNCHANGED <<rb_file, tw_file, rating_brackets, topic_weights, db, pc, args,
                   counts, segs, failed, queries, console, result, problem,
                   out_file, updateVars, fetchVars, listVars>>
    /\ UNCHANGED mainVars

NextScore == Score

SpecScore == InitScore /\ [][NextScore]_vars

----------------------------------------------------------------------------
(* calculate_quality_score over a grid of acceptance rates and frequencies *)

\* the candidate of the worked scoring example
Scenario88 ==
    [frequency_bar |-> Num(80), difficulty |-> Str(sMedium),
     acceptance_rate |-> Num(50), likes |-> Num(10), dislikes |-> Num(1),
     rating |-> Num(2000), topics |-> Str(sArray),
     companies |-> Str(<<"G","o","o","g","l","e">>)]

GridFrequencies == {0, 1, 40, 79, 80, 81, 100}

GridInputs ==
    {[Scenario88 EXCEPT !["difficulty"] = Str(d), !["acceptance_rate"] = Num(a),
                        !["frequency_bar"] = Num(f)] :
        d \in {sEasy, sMedium, sHard}, a \in 0..100, f \in GridFrequencies}

InitGrid ==
    /\ rb_file = [kind |-> "nopath", content |-> EmptyDict]
    /\ tw_file \in {[kind |-> "nopath", content |-> EmptyDict],
                    [kind |-> "valid", content |-> CustomWeights]}
    /\ rating_brackets = load_rating_brackets(rb_file)
    /\ topic_weights = load_topic_weights(tw_file)
    /\ console = <<>>
    /\ db = <<>>
    /\ pc = "idle"
    /\ args = [rating_bracket |-> "", problem_count |-> 0]
    /\ counts = NoCounts
    /\ segs = NoSegs
    /\ failed = {}
    /\ queries = <<>>
    /\ result = NoResult
    /\ problem \in GridInputs
    /\ score_out = NoScore
    /\ out_file = NoFile
    /\ MainIdle /\ UpdateIdle /\ FetchIdle /\ ListIdle

SpecGrid == InitGrid /\ [][NextScore]_vars

----------------------------------------------------------------------------
(* calculate_quality_score on records that exercise each sub-score *)

\* companies values: one target tag, tags in mixed case next to other
\* companies, and six target tags
sGoogle == <<"G","o","o","g","l","e">>

sApple == <<"A","P","P","L","E">>

sAmazonWeb == <<"A","m","a","z","o","n"," ","W","e","b">>

sMeta == <<"M","e","t","a">>

PartCompanies ==
    {Absent, Str(<<>>), Str(sGoogle), Str(Join(<<sMeta, sAmazonWeb, sApple>>)),
     Str(Join(<<sGoogle, sApple, sAmazonWeb, sGoogle, sApple, sAmazonWeb>>))}

PartDislikes == {Absent, None, Num(0), Num(1), Num(5), Num(-5)}

PartInputs ==
    {MakeDict(f) : f \in [frequency_bar : {Num(-8), Num(0), Num(100)},
                          acceptance_rate : {Num(0), Num(50), Num(100)},
                          likes : {Absent, Num(10), Num(200)},
                          dislikes : PartDislikes,
                          rating : {None, Num(2100), Num(5000)},
                          difficulty : {Str(sEasy), Str(sMedium), Str(sHard)},
                          topics : {Absent, Str(sArray), Str(Join(<<sArray, sShell>>))},
                          companies : PartCompanies]}

\* a topic weights file that marks a topic down
NegativeWeights == sArray :> -10

InitParts ==
    /\ rb_file = [kind |-> "nopath", content |-> EmptyDict]
    /\ tw_file \in {[kind |-> "nopath", content |-> EmptyDict],
                    [kind |-> "valid", content |-> CustomWeights],
                    [kind |-> "valid", content |-> NegativeWeights]}
    /\ rating_brackets = load_rating_brackets(rb_file)
    /\ topic_weights = load_topic_weights(tw_file)
    /\ console = <<>>
    /\ db = <<>>
    /\ pc = "idle"
    /\ args = [rating_bracket |-> "", problem_count |-> 0]
    /\ counts = NoCounts
    /\ segs = NoSegs
    /\ failed = {}
    /\ queries = <<>>
    /\ result = NoResult
    /\ problem \in PartInputs
    /\ score_out = NoScore
    /\ out_file = NoFile
    /\ MainIdle /\ UpdateIdle /\ FetchIdle /\ ListIdle

SpecParts == InitParts /\ [][NextScore]_vars

----------------------------------------------------------------------------
(* Properties of generate_problem_list *)

Known == pc # "idle" /\ args.rating_bracket \in DOMAIN rating_brackets

Returned == pc = "done" /\ result.status = "returned"

Config == rating_brackets[args.rating_bracket]

PctSum == Config.easy_pct + Config.medium_pct + Config.hard_pct

CountSum == counts.easy + counts.medium + counts.hard

RawSum == counts.raw_easy + counts.raw_medium + counts.raw_hard

Segments == {"easy", "medium", "hard"}

\* messages printed since the selector was constructed
CallMsgs ==
    SubSeq(console,
           Len(load_rating_brackets_msgs(rb_file) \o load_topic_weights_msgs(tw_file)) + 1,
           Len(console))

\* C1 as stated: for every bracket of the table and every totalCount >= 0 the
\* three target counts after reallocation add up to totalCount.
C1_SumEqualsTotal ==
    (Known /\ args.problem_count >= 0) => CountSum = args.problem_count

\* C1 amended: for totalCount >= 0 the three target counts add up to at
\* least totalCount, and to exactly totalCount for every bracket whose
\* percentages add up to at most 100 (as all seven built-in brackets do).
C1_SumAtLeastTotal ==
    (Known /\ args.problem_count >= 0) =>
        /\ CountSum >= args.problem_count
        /\ PctSum <= 100 => CountSum = args.problem_count

\* a call in which truncation left a shortfall that reallocation filled
C1_Witness ==
    /\ Known /\ args.problem_count > 0
    /\ PctSum <= 100
    /\ RawSum < args.problem_count
    /\ CountSum = args.problem_count

\* C2 as stated: an unknown bracket label yields, without raising, a result
\* whose total_count is 0.
C2_UnknownHasZeroTotal ==
    (pc = "done" /\ args.rating_bracket \notin DOMAIN rating_brackets) =>
        /\ result.status = "returned"
        /\ "total_count" \in DOMAIN result.value
        /\ result.value["total_count"] = 0

\* C2 amended: an unknown bracket label yields, without raising, the empty
\* dictionary (no total_count, no segments); "Invalid rating bracket" is
\* printed and storage is not queried.
C2_UnknownIsEmptyDict ==
    (pc = "done" /\ args.rating_bracket \notin DOMAIN rating_brackets) =>
        /\ result.status = "returned"
        /\ DOMAIN result.value = {}
        /\ CallMsgs = <<"Invalid rating bracket">>
        /\ queries = <<>>

\* a finished call with a label the table does not hold
C2_Witness ==
    /\ pc = "done"
    /\ args.rating_bracket \notin DOMAIN rating_brackets
    /\ args.problem_count > 0
    /\ db # <<>>

ScoreAt(seq, i) == seq[i]["quality_score"].n

\* C3 as stated: every returned segment is ordered by non-increasing
\* quality_score and is no longer than the target count of its difficulty.
C3_SortedAndWithinTarget ==
    (Returned /\ Known) =>
        \A seg \in Segments :
            /\ Len(result.value[seg]) <= counts[seg]
            /\ \A i \in 1..(Len(result.value[seg]) - 1) :
                   ScoreAt(result.value[seg], i) >= ScoreAt(result.value[seg], i + 1)

\* C3 amended: every returned segment is ordered by non-increasing
\* quality_score and is no longer than the target count of its difficulty
\* when that count is not negative; for a negative target count (negative
\* requested count) the segment is empty.
C3_SortedAndWithinNonNegativeTarget ==
    (Returned /\ Known) =>
        \A seg \in Segments :
            /\ Len(result.value[seg]) <= Max(counts[seg], 0)
            /\ \A i \in 1..(Len(result.value[seg]) - 1) :
                   ScoreAt(result.value[seg], i) >= ScoreAt(result.value[seg], i + 1)

\* a returned segment that was cut to its target count and whose best
\* candidate is not the one storage listed first
C3_Witness ==
    /\ Returned /\ Known
    /\ \E seg \in Segments :
          /\ Len(result.value[seg]) >= 2
          /\ Len(result.value[seg]) = counts[seg]
          /\ ScoreAt(result.value[seg], 1) > ScoreAt(result.value[seg], 2)
          /\ result.value[seg][1]["frequency_bar"].n
                 < result.value[seg][2]["frequency_bar"].n
          /\ Len(RunQuery(db, QueryFor(Config, DifficultyOf(seg), counts[seg])))
                 > counts[seg]

\* C4: for a known bracket the call returns without raising, and total_count
\* is the number of candidates in the three returned segments (which may be
\* fewer than requested).
C4_TotalIsReturnedCount ==
    (pc = "done" /\ Known) =>
        /\ result.status = "returned"
        /\ result.value["total_count"] =
               Len(result.value["easy"]) + Len(result.value["medium"])
               + Len(result.value["hard"])

\* a returned selection with some, but fewer than the requested, candidates
C4_Witness ==
    /\ Returned /\ Known
    /\ result.value["total_count"] > 0
    /\ Len(result.value["hard"]) > 0
    /\ result.value["total_count"] < args.problem_count

\* the candidate as storage returned it, read as a problem of the given
\* difficulty
AsDifficulty(p, difficulty) ==
    [key \in (DOMAIN p \ {"quality_score"}) \cup {"difficulty"} |->
        IF key = "difficulty" THEN Str(difficulty) ELSE p[key]]

\* C5 as stated: every candidate's quality_score is the score computed with
\* the acceptance band of the difficulty it was fetched for.
C5_ScoredWithOwnBand ==
    (Returned /\ Known) =>
        \A seg \in Segments :
            \A i \in 1..Len(result.value[seg]) :
                ScoreAt(result.value[seg], i) =
                    calculate_quality_score(
                        AsDifficulty(result.value[seg][i], DifficultyOf(seg)),
                        topic_weights).value

\* C6: when the raw counts fall short of totalCount by diff > 0, medium grows
\* by diff // 2 and hard by the rest if the raw medium count is positive,
\* else hard grows by diff; easy is never changed and no count decreases.
C6_Reallocation ==
    Known =>
        LET diff == args.problem_count - RawSum
        IN  /\ counts.easy = counts.raw_easy
            /\ counts.medium >= counts.raw_medium
            /\ counts.hard >= counts.raw_hard
            /\ (diff > 0 /\ counts.raw_medium > 0) =>
                   /\ counts.medium = counts.raw_medium + diff \div 2
                   /\ counts.hard = counts.raw_hard + (diff - diff \div 2)
            /\ (diff > 0 /\ counts.raw_medium <= 0) =>
                   /\ counts.medium = counts.raw_medium
                   /\ counts.hard = counts.raw_hard + diff
            /\ diff <= 0 =>
                   /\ counts.medium = counts.raw_medium
                   /\ counts.hard = counts.raw_hard

\* a shortfall of at least 2 split between medium and hard
C6_Witness ==
    /\ Known
    /\ args.problem_count - RawSum >= 2
    /\ counts.raw_medium > 0
    /\ counts.medium > counts.raw_medium
    /\ counts.hard > counts.raw_hard

\* C7: built-in bracket "1900-2000" with totalCount 10 has raw counts
\* (0, 5, 4) and final target counts (0, 5, 5).
C7_Scenario1900 ==
    (pc # "idle" /\ rating_brackets = default_brackets
     /\ args.rating_bracket = "1900-2000" /\ args.problem_count = 10) =>
        counts = [raw_easy |-> 0, raw_medium |-> 5, raw_hard |-> 4,
                  easy |-> 0, medium |-> 5, hard |-> 5]

\* the scenario's call, finished
C7_Witness ==
    /\ Returned
    /\ rating_brackets = default_brackets
    /\ args.rating_bracket = "1900-2000" /\ args.problem_count = 10
    /\ counts.hard = counts.raw_hard + 1

\* the segment a difficulty gets when its own fetch succeeds
SegmentOnSuccess(seg) ==
    IF counts[seg] > 0
    THEN get_quality_problems(rating_brackets, topic_weights, db,
                              args.rating_bracket, DifficultyOf(seg), counts[seg],
                              TRUE).problems
    ELSE <<>>

\* C8: a failed storage fetch leaves its difficulty's segment empty, raises
\* nothing, and every other difficulty is queried and gets the segment it
\* would get had the failed fetch returned no candidates.
C8_FailedFetchIsEmptySegment ==
    (pc = "done" /\ Known) =>
        /\ result.status = "returned"
        /\ \A seg \in Segments :
              result.value[seg] = IF seg \in failed THEN <<>> ELSE SegmentOnSuccess(seg)
        /\ Len(queries) = Cardinality({seg \in Segments : counts[seg] > 0})

\* the medium fetch failed, the easy and hard segments were still filled
C8_Witness ==
    /\ Returned /\ Known
    /\ failed = {"medium"}
    /\ Len(RunQuery(db, QueryFor(Config, sMedium, counts.medium))) > 0
    /\ Len(result.value["easy"]) > 0
    /\ Len(result.value["hard"]) > 0

EmptySelection ==
    /\ result.value["easy"] = <<>>
    /\ result.value["medium"] = <<>>
    /\ result.value["hard"] = <<>>
    /\ result.value["total_count"] = 0
    /\ queries = <<>>

\* C9 as stated: a known bracket with a requested count <= 0 yields, without
\* raising, an empty result (no fetch) together with a diagnostic message.
C9_NonPositiveCountDiagnosed ==
    (pc = "done" /\ Known /\ args.problem_count <= 0) =>
        /\ result.status = "returned"
        /\ EmptySelection
        /\ CallMsgs # <<>>

\* C9 amended: a known bracket with a requested count <= 0 never raises;
\* when the count is 0, or the bracket's percentages add up to at most 100,
\* the result has three empty segments and total_count 0, no fetch is
\* issued and nothing is printed.
C9_NonPositiveCountSilentlyEmpty ==
    (pc = "done" /\ Known /\ args.problem_count <= 0) =>
        /\ result.status = "returned"
        /\ (args.problem_count = 0 \/ PctSum <= 100) =>
               (EmptySelection /\ CallMsgs = <<>>)

\* a finished call with a negative count on a built-in bracket
C9_Witness ==
    /\ Returned /\ Known
    /\ args.problem_count < 0
    /\ PctSum <= 100
    /\ db # <<>>
    /\ CountSum < 0

----------------------------------------------------------------------------
(* Properties of calculate_quality_score *)

NumericKeys == {"frequency_bar", "acceptance_rate", "likes", "dislikes", "rating"}

ListKeys == {"topics", "companies"}

\* every field is missing, None or of the type the function expects
WellTyped(p) ==
    /\ \A key \in NumericKeys \cap DOMAIN p :
          \/ p[key].k \in {"none", "num"}
          \/ p[key].k = "str" /\ IsNumeric(p[key].s)
    /\ \A key \in ListKeys \cap DOMAIN p : p[key].k \in {"none", "str"}

\* C10 as stated: calculate_quality_score returns a number without raising
\* for every record, malformed fields included.
C10_NeverRaises ==
    score_out.status = "done" => score_out.raised = ""

\* C10 amended: calculate_quality_score returns a number without raising for
\* every record whose fields are each missing, None or of the expected type.
C10_NoRaiseOnMissingOrNull ==
    (score_out.status = "done" /\ WellTyped(problem)) =>
        /\ score_out.raised = ""
        /\ score_out.value >= 0

\* a record with a missing field and a None field was scored
C10_Witness ==
    /\ score_out.status = "done"
    /\ WellTyped(problem)
    /\ "likes" \notin DOMAIN problem
    /\ "frequency_bar" \in DOMAIN problem /\ problem["frequency_bar"] = None
    /\ "dislikes" \in DOMAIN problem /\ problem["dislikes"] = None
    /\ "acceptance_rate" \in DOMAIN problem /\ problem["acceptance_rate"].k = "num"
    /\ score_out.value > 0

----------------------------------------------------------------------------
(* Properties of the sub-scores *)

BandOf(difficulty) ==
    IF difficulty = Str(sEasy) THEN <<50, 70>>
    ELSE IF difficulty = Str(sMedium) THEN <<40, 60>>
    ELSE <<30, 50>>

InBand(p) ==
    /\ BandOf(p["difficulty"])[1] <= p["acceptance_rate"].n
    /\ p["acceptance_rate"].n <= BandOf(p["difficulty"])[2]

\* C11: for Easy [50,70], Medium [40,60] and Hard [30,50] and every
\* acceptance rate in [0,100], the acceptance sub-score is 20 exactly when
\* the rate lies in the band of the difficulty, and below 20 otherwise.
C11_MaxExactlyInBand ==
    score_out.status = "done" =>
        /\ score_out.raised = ""
        /\ score_out.parts.acc <= 20 * SCALE
        /\ score_out.parts.acc = 20 * SCALE <=> InBand(problem)

\* rates at both edges of a band were scored: the edge itself (20) and the
\* rate just outside it (less than 20)
C11_Witness ==
    /\ score_out.status = "done"
    /\ problem["difficulty"] = Str(sHard)
    /\ problem["acceptance_rate"].n = 51
    /\ score_out.parts.acc < 20 * SCALE
    /\ score_out.parts.acc > 0

\* the record with another frequency_bar, everything else equal
WithFrequency(p, f) == [p EXCEPT !["frequency_bar"] = Num(f)]

\* C12: of two candidates that differ only in frequency_bar, f1 <= f2 <= 80,
\* the one with f2 has a frequency sub-score and a total score that are not
\* smaller.
C12_MonotonicInFrequency ==
    (score_out.status = "done" /\ problem["frequency_bar"].n <= 80) =>
        \A f1 \in {f \in GridFrequencies : f <= problem["frequency_bar"].n} :
            /\ FreqScore(f1) <= score_out.parts.freq
            /\ calculate_quality_score(WithFrequency(problem, f1), topic_weights).value
                   <= score_out.value

\* a candidate with frequency 79 was scored strictly above its twin with
\* frequency 40
C12_Witness ==
    /\ score_out.status = "done"
    /\ problem["frequency_bar"].n = 79
    /\ FreqScore(40) < score_out.parts.freq
    /\ calculate_quality_score(WithFrequency(problem, 40), topic_weights).value
           < score_out.value

\* C13: with the built-in topic weights the example candidate has sub-scores
\* 40, 20, 20/3, 15, 5 and 2 and the total 266/3.
C13_Scenario88 ==
    (score_out.status = "done" /\ problem = Scenario88
     /\ topic_weights = default_weights) =>
        /\ score_out.raised = ""
        /\ score_out.parts = [freq |-> 40 * SCALE, acc |-> 20 * SCALE,
                              like |-> (20 * SCALE) \div 3, topic |-> 15 * SCALE,
                              rating |-> 5 * SCALE, company |-> 2 * SCALE]
        /\ 3 * score_out.value = 266 * SCALE

\* the example candidate was scored with the built-in weights
C13_Witness ==
    /\ score_out.status = "done"
    /\ problem = Scenario88
    /\ topic_weights = default_weights
    /\ score_out.value > 88 * SCALE

----------------------------------------------------------------------------
(* Properties of the configuration loaders *)

FallbackKinds == {"nopath", "missing"} \cup FailKinds

\* C15: when the path is absent, the file does not exist, or reading or
\* parsing it fails, each loader returns its built-in default table and
\* constructing the selector does not raise.
C15_LoadersFallBack ==
    pc # "new" =>
        /\ (rb_file.kind \in FallbackKinds /\ tw_file.kind \in FallbackKinds) =>
               (pc = "idle" /\ result.status # "raised")
        /\ (pc = "idle" /\ rb_file.kind \in FallbackKinds) =>
               rating_brackets = default_brackets
        /\ (pc = "idle" /\ tw_file.kind \in FallbackKinds) =>
               topic_weights = default_weights

\* a selector built from a brackets file that cannot be read and a weights
\* file that is not valid JSON
C15_Witness ==
    /\ pc = "idle"
    /\ rb_file.kind = "unreadable"
    /\ tw_file.kind = "invalid"
    /\ rating_brackets = default_brackets
    /\ topic_weights = default_weights
    /\ Len(console) = 2

----------------------------------------------------------------------------
(* Properties of save_to_file *)

\* the lines of a text file, cur being the line that is being read
RECURSIVE LinesFrom(_, _)
LinesFrom(content, cur) ==
    IF content = <<>> THEN (IF cur = <<>> THEN <<>> ELSE <<cur>>)
    ELSE IF Head(content) = "\n" THEN <<cur>> \o LinesFrom(Tail(content), <<>>)
    ELSE LinesFrom(Tail(content), Append(cur, Head(content)))

Slugs(problems) == [i \in 1..Len(problems) |-> problems[i]["title_slug"].s]

\* C16: the file save_to_file writes holds one slug per line: the slugs of
\* the easy segment, then of the medium segment, then of the hard segment,
\* each segment in its own order.
C16_FileIsConcatenation ==
    (pc = "saved" /\ out_file.status = "written") =>
        LinesFrom(out_file.content, <<>>) =
            Slugs(result.value["easy"]) \o Slugs(result.value["medium"])
            \o Slugs(result.value["hard"])

\* a written file with slugs of all three segments, two of them medium
C16_Witness ==
    /\ pc = "saved" /\ out_file.status = "written"
    /\ Len(result.value["easy"]) >= 1
    /\ Len(result.value["medium"]) >= 2
    /\ Len(result.value["hard"]) >= 1
    /\ Len(LinesFrom(out_file.content, <<>>)) >= 4

----------------------------------------------------------------------------
(* Properties of the storage queries *)

SegmentOf(difficulty) ==
    IF difficulty = sEasy THEN "easy" ELSE IF difficulty = sMedium THEN "medium" ELSE "hard"

\* C17: every storage fetch for a difficulty with target count c asks for
\* 2 * c rows with the bracket's freq_min and like_ratio and the acceptance
\* range (0,100) for Easy, medium_acc for Medium and hard_acc for Hard.
C17_QueryParameters ==
    Known =>
        \A i \in 1..Len(queries) :
            /\ queries[i].count = 2 * counts[SegmentOf(queries[i].difficulty)]
            /\ queries[i].freq_min = Config.freq_min
            /\ queries[i].like_ratio_min = Config.like_ratio
            /\ queries[i].difficulty = sEasy => queries[i].acc_range = <<0, 100>>
            /\ queries[i].difficulty = sMedium =>
                   queries[i].acc_range = Config.medium_acc
            /\ queries[i].difficulty = sHard => queries[i].acc_range = Config.hard_acc

\* all three difficulties were queried, with different limits and ranges
C17_Witness ==
    /\ Returned /\ Known
    /\ Len(queries) = 3
    /\ queries[1].acc_range = <<0, 100>>
    /\ queries[2].acc_range # queries[3].acc_range
    /\ queries[2].count > queries[3].count
    /\ queries[3].count >= 2

Rank(difficulty) ==
    IF difficulty = sEasy THEN 1 ELSE IF difficulty = sMedium THEN 2 ELSE 3

\* the segments whose fetch line has been passed
Passed ==
    CASE pc = "easy" -> {}
      [] pc = "medium" -> {"easy"}
      [] pc = "hard" -> {"easy", "medium"}
      [] OTHER -> Segments

\* C18: within one call storage is queried in the order Easy, Medium, Hard,
\* at most once per difficulty (at most three times), and never for a
\* difficulty whose target count is not positive.
C18_QueryOrder ==
    Known =>
        /\ Len(queries) <= 3
        /\ \A i \in 1..Len(queries) : \A j \in 1..Len(queries) :
               i < j => Rank(queries[i].difficulty) < Rank(queries[j].difficulty)
        /\ \A i \in 1..Len(queries) :
               counts[SegmentOf(queries[i].difficulty)] > 0
        /\ {SegmentOf(queries[i].difficulty) : i \in 1..Len(queries)}
               = {seg \in Passed : counts[seg] > 0}

\* a finished call that queried Easy and Hard but not Medium, whose target
\* count was 0
C18_Witness ==
    /\ Returned /\ Known
    /\ counts.medium <= 0
    /\ Len(queries) = 2
    /\ queries[1].difficulty = sEasy
    /\ queries[2].difficulty = sHard

----------------------------------------------------------------------------
(* Properties of the selection against what storage returned *)

\* the rows storage returned for a segment in this call
Fetched(seg) ==
    IF counts[seg] > 0 /\ seg \notin failed
    THEN RunQuery(db, QueryFor(Config, DifficultyOf(seg), counts[seg]))
    ELSE <<>>

\* the candidate without the score attached to it
Unscored(p) == [key \in DOMAIN p \ {"quality_score"} |-> p[key]]

\* the candidates of the returned segment are distinct elements of the
\* fetched list, and no fetched candidate left out beats a kept one
KeptFromFetched(seg) ==
    LET kept == result.value[seg]
        rows == Fetched(seg)
        at == [i \in 1..Len(kept) |->
                  {j \in 1..Len(rows) : rows[j] = Unscored(kept[i])}]
        used == UNION {at[i] : i \in 1..Len(kept)}
    IN  /\ \A i \in 1..Len(kept) : at[i] # {}
        /\ \A i \in 1..Len(kept) : \A j \in 1..Len(kept) :
               i # j => kept[i]["id"] # kept[j]["id"]
        /\ \A j \in (1..Len(rows)) \ used : \A i \in 1..Len(kept) :
               calculate_quality_score(rows[j], topic_weights).value
                   <= ScoreAt(kept, i)

\* C19 as stated: each returned segment holds exactly min(target count,
\* number of fetched candidates) candidates, each a distinct element of the
\* fetched list, and every fetched candidate left out scores no higher than
\* any candidate kept.
C19_ExactlyMinOfTargetAndFetched ==
    (Returned /\ Known) =>
        \A seg \in Segments :
            /\ Len(result.value[seg]) = Min(counts[seg], Len(Fetched(seg)))
            /\ KeptFromFetched(seg)

\* C19 amended: the same, with the target count taken as 0 when it is
\* negative (a negative requested count yields empty segments).
C19_ExactlyMinOfNonNegativeTargetAndFetched ==
    (Returned /\ Known) =>
        \A seg \in Segments :
            /\ Len(result.value[seg]) = Min(Max(counts[seg], 0), Len(Fetched(seg)))
            /\ KeptFromFetched(seg)

\* a segment cut to its target count, the fetched candidate left out
\* scoring strictly less than the last one kept
C19_Witness ==
    /\ Returned /\ Known
    /\ \E seg \in Segments :
          /\ Len(Fetched(seg)) > counts[seg]
          /\ Len(result.value[seg]) = counts[seg]
          /\ counts[seg] >= 2
          /\ \E j \in 1..Len(Fetched(seg)) :
                 calculate_quality_score(Fetched(seg)[j], topic_weights).value
                     < ScoreAt(result.value[seg], counts[seg])

\* the table row a returned candidate was selected from
RowOf(p) == CHOOSE r \in {db[i] : i \in 1..Len(db)} : r.id = p["id"].n

\* the conditions of C20 that do not concern NULL values
FetchedAsRequested(seg, p) ==
    /\ "difficulty" \notin DOMAIN p
    /\ RowOf(p).difficulty = DifficultyOf(seg)
    /\ AccRange(Config, DifficultyOf(seg))[1] <= p["acceptance_rate"].n
    /\ p["acceptance_rate"].n <= AccRange(Config, DifficultyOf(seg))[2]

\* C20 as stated: every candidate storage returns has the requested
\* difficulty, an acceptance rate in the requested range, a frequency_bar of
\* at least freq_min and a likes/dislikes ratio of at least like_ratio_min
\* (a candidate without dislikes but with likes counts as above any ratio).
C20_FetchedMeetThresholds ==
    Known =>
        \A seg \in Segments : \A j \in 1..Len(Fetched(seg)) :
            LET p == Fetched(seg)[j]
            IN  /\ FetchedAsRequested(seg, p)
                /\ p["frequency_bar"].k = "num"
                /\ p["frequency_bar"].n >= Config.freq_min
                /\ p["likes"].k = "num" /\ p["dislikes"].k = "num"
                /\ \/ /\ p["dislikes"].n > 0
                      /\ p["likes"].n >= Config.like_ratio * p["dislikes"].n
                   \/ p["dislikes"].n = 0 /\ p["likes"].n > 0

\* C20 amended: every candidate storage returns has the requested
\* difficulty and an acceptance rate in the requested range; its
\* frequency_bar is NULL or at least freq_min; and either its dislikes are
\* positive and likes/dislikes is at least like_ratio_min, or it has likes
\* and no dislikes, or its likes and dislikes are both NULL.
C20_FetchedMeetThresholdsOrNull ==
    Known =>
        \A seg \in Segments : \A j \in 1..Len(Fetched(seg)) :
            LET p == Fetched(seg)[j]
            IN  /\ FetchedAsRequested(seg, p)
                /\ \/ p["frequency_bar"].k = "none"
                   \/ p["frequency_bar"].n >= Config.freq_min
                /\ \/ /\ p["likes"].k = "num" /\ p["dislikes"].k = "num"
                      /\ p["dislikes"].n > 0
                      /\ p["likes"].n >= Config.like_ratio * p["dislikes"].n
                   \/ /\ p["likes"].k = "num" /\ p["dislikes"].k = "num"
                      /\ p["dislikes"].n = 0 /\ p["likes"].n > 0
                   \/ p["likes"].k = "none" /\ p["dislikes"].k = "none"

\* a returned selection holding a candidate without dislikes, fetched next
\* to candidates that meet the ratio, from a catalog with rows the query
\* had to leave out
C20_Witness ==
    /\ Returned /\ Known
    /\ Len(db) > Len(Fetched("easy")) + Len(Fetched("medium")) + Len(Fetched("hard"))
    /\ Len(Fetched("medium")) >= 2
    /\ \E j \in 1..Len(Fetched("medium")) : Fetched("medium")[j]["dislikes"] = Num(0)
    /\ \E j \in 1..Len(Fetched("medium")) : Fetched("medium")[j]["dislikes"].n > 0
    /\ Len(result.value["medium"]) >= 1

----------------------------------------------------------------------------
(* Properties of the sub-scores *)

Scored == score_out.status = "done" /\ score_out.raised = ""

\* the value of a numeric field as the function reads it
FieldValue(key, dflt) == NumField(problem, key, dflt).n

\* the precondition of C21 on the candidate
InScoringDomain ==
    /\ FieldValue("frequency_bar", 0) >= 0
    /\ FieldValue("acceptance_rate", 0) >= 0
    /\ FieldValue("acceptance_rate", 0) <= 100
    /\ FieldValue("likes", 0) >= 0
    /\ FieldValue("dislikes", 1) >= 0

WithinCaps ==
    /\ 0 <= score_out.parts.freq /\ score_out.parts.freq <= 40 * SCALE
    /\ 0 <= score_out.parts.acc /\ score_out.parts.acc <= 20 * SCALE
    /\ 0 <= score_out.parts.like /\ score_out.parts.like <= 20 * SCALE
    /\ 0 <= score_out.parts.topic /\ score_out.parts.topic <= 15 * SCALE
    /\ 0 <= score_out.parts.rating /\ score_out.parts.rating <= 5 * SCALE
    /\ 0 <= score_out.parts.company /\ score_out.parts.company <= 10 * SCALE
    /\ 0 <= score_out.value /\ score_out.value <= 110 * SCALE

\* C21 as stated: for a candidate with frequency >= 0, acceptance rate in
\* [0,100] and non-negative likes and dislikes, every sub-score lies between
\* 0 and its cap and the total lies in [0, 110].
C21_SubScoresWithinCaps ==
    (Scored /\ InScoringDomain) => WithinCaps

\* C21 amended: the same, provided no topic weight is negative.
C21_SubScoresWithinCapsForNonNegativeWeights ==
    (Scored /\ InScoringDomain
        /\ \A t \in DOMAIN topic_weights : topic_weights[t] >= 0)
      => WithinCaps

\* a candidate in the domain reaching the caps of the frequency, like and
\* company sub-scores
C21_Witness ==
    /\ Scored /\ InScoringDomain
    /\ \A t \in DOMAIN topic_weights : topic_weights[t] >= 0
    /\ score_out.parts.freq = 40 * SCALE
    /\ score_out.parts.like = 20 * SCALE
    /\ score_out.parts.company = 10 * SCALE
    /\ score_out.parts.topic > 0

\* min(ratio, 30) / 30 * 20 for a ratio given as likes over dislikes # 0
LikeScoreOfRatio(likes, dislikes) ==
    LET ratio == IF dislikes > 0 THEN (likes * SCALE) \div dislikes
                 ELSE 0 - ((likes * SCALE) \div (0 - dislikes))
    IN  IF ratio >= 30 * SCALE THEN 20 * SCALE ELSE (ratio * 20) \div 30

DislikesGiven ==
    "dislikes" \in DOMAIN problem /\ problem["dislikes"].k # "none"

CompanyTags ==
    IF "companies" \in DOMAIN problem /\ problem["companies"].k = "str"
          /\ problem["companies"].s # <<>>
    THEN Split(problem["companies"].s)
    ELSE <<>>

TargetNames ==
    {<<"g","o","o","g","l","e">>, <<"a","m","a","z","o","n">>,
     <<"f","a","c","e","b","o","o","k">>,
     <<"m","i","c","r","o","s","o","f","t">>, <<"a","p","p","l","e">>}

\* k: the number of tags whose lowercased name contains a target name
TargetTagCount ==
    Cardinality({i \in 1..Len(CompanyTags) :
                    \E name \in TargetNames : Contains(Lower(CompanyTags[i]), name)})

\* C23: the company sub-score is min(10, 2 * k), k being the number of
\* company tags whose lowercased name contains google, amazon, facebook,
\* microsoft or apple; it is 0 for a candidate without company tags.
C23_CompanyScore ==
    Scored =>
        /\ score_out.parts.company = Min(10, 2 * TargetTagCount) * SCALE
        /\ CompanyTags = <<>> => score_out.parts.company = 0

\* a scored record with six target tags, in mixed case, capped at 10
C23_Witness ==
    /\ Scored
    /\ Len(CompanyTags) = 6
    /\ TargetTagCount = 6
    /\ score_out.parts.company = 10 * SCALE

\* the fetched record a returned candidate of seg came from
SourceOf(seg, p) ==
    CHOOSE q \in {Fetched(seg)[k] : k \in 1..Len(Fetched(seg))} : q["id"] = p["id"]

\* C24: after get_quality_problems every field a fetched candidate had
\* before scoring has the same value, the only field added is
\* quality_score, and the topic weights are the ones loaded at construction.
C24_OnlyQualityScoreAdded ==
    (Returned /\ Known) =>
        /\ topic_weights = load_topic_weights(tw_file)
        /\ \A seg \in Segments : \A j \in 1..Len(result.value[seg]) :
              LET p == result.value[seg][j]
              IN  /\ \E k \in 1..Len(Fetched(seg)) : Fetched(seg)[k]["id"] = p["id"]
                  /\ DOMAIN p = DOMAIN SourceOf(seg, p) \cup {"quality_score"}
                  /\ "quality_score" \notin DOMAIN SourceOf(seg, p)
                  /\ \A key \in DOMAIN SourceOf(seg, p) : p[key] = SourceOf(seg, p)[key]

\* a returned selection whose candidates carry a rating, NULL fields and a
\* positive quality_score
C24_Witness ==
    /\ Returned /\ Known
    /\ \E j \in 1..Len(result.value["medium"]) :
          /\ result.value["medium"][j]["rating"].k = "num"
          /\ result.value["medium"][j]["quality_score"].n > 0
    /\ \E seg \in Segments : \E j \in 1..Len(result.value[seg]) :
          result.value[seg][j]["rating"] = None

\* the position of a returned candidate of seg in the list storage returned
PositionOf(seg, p) ==
    CHOOSE k \in 1..Len(Fetched(seg)) : Fetched(seg)[k]["id"] = p["id"]

\* frequency descending (NULL last), then acceptance descending
InStorageOrder(p, q) ==
    \/ p["frequency_bar"].k = "num" /\ q["frequency_bar"].k = "none"
    \/ /\ p["frequency_bar"].k = "num" /\ q["frequency_bar"].k = "num"
       /\ p["frequency_bar"].n > q["frequency_bar"].n
    \/ /\ p["frequency_bar"] = q["frequency_bar"]
       /\ p["acceptance_rate"].n >= q["acceptance_rate"].n

\* C25: within a segment two candidates of equal quality_score appear in
\* the relative order in which storage returned them, which is frequency
\* descending, then acceptance descending.
C25_TiesKeepStorageOrder ==
    (Returned /\ Known) =>
        \A seg \in Segments : \A i, j \in 1..Len(result.value[seg]) :
            (i < j /\ ScoreAt(result.value[seg], i) = ScoreAt(result.value[seg], j))
              => /\ PositionOf(seg, result.value[seg][i])
                      < PositionOf(seg, result.value[seg][j])
                 /\ InStorageOrder(result.value[seg][i], result.value[seg][j])

\* two candidates of equal score returned behind a better one, in the
\* order opposite to their order in the table
C25_Witness ==
    /\ Returned /\ Known
    /\ Len(result.value["medium"]) = 3
    /\ ScoreAt(result.value["medium"], 1) > ScoreAt(result.value["medium"], 2)
    /\ ScoreAt(result.value["medium"], 2) = ScoreAt(result.value["medium"], 3)
    /\ result.value["medium"][2]["id"].n > result.value["medium"][3]["id"].n

Unsolved(p) == p["status"].k = "none" \/ p["status"].s # sAc

\* C26: every candidate storage returns, and so every candidate of a
\* selection, has status NULL or different from 'ac'.
C26_NoSolvedCandidate ==
    Known =>
        /\ \A seg \in Segments : \A j \in 1..Len(Fetched(seg)) :
              Unsolved(Fetched(seg)[j])
        /\ Returned =>
              \A seg \in Segments : \A j \in 1..Len(result.value[seg]) :
                  Unsolved(result.value[seg][j])

\* an Easy fetch over a table holding a solved Easy problem returned
\* candidates, and the selection holds a candidate with a status other
\* than 'ac'
C26_Witness ==
    /\ Returned /\ Known
    /\ \E i \in 1..Len(db) : db[i].difficulty = sEasy /\ db[i].status = Str(sAc)
    /\ Len(result.value["easy"]) >= 1
    /\ \E j \in 1..Len(result.value["medium"]) :
          result.value["medium"][j]["status"].k = "str"

----------------------------------------------------------------------------
(* Properties of selector_main *)

\* C27: once connect() succeeded, close() is called exactly once before
\* selector_main ends, whether selection, display and save succeed or one
\* of them raises; when connect() fails the process exits with status 1
\* and the selector is never constructed or run.
C27_CloseExactlyOnce ==
    /\ close_calls <= 1
    /\ (main_pc = "exited" /\ connect_result = "ok") => close_calls = 1
    /\ (main_pc # "exited") => close_calls = 0
    /\ connect_result # "ok" => pc = "new" /\ queries = <<>> /\ close_calls = 0
    /\ connect_result = "failed" =>
          /\ main_pc = "exited"
          /\ exit_status = "exit 1"
          /\ result = NoResult /\ out_file = NoFile

\* selector_main ended after display_problem_list raised: the connection
\* was closed once, nothing was saved and the exit status is 1
C27_Witness ==
    /\ main_pc = "exited"
    /\ connect_result = "ok"
    /\ result.status = "raised" /\ result.exc = "TypeError"
    /\ close_calls = 1
    /\ exit_status = "exit 1"

----------------------------------------------------------------------------
(* Properties of update_problem *)

\* C28: update_problem is all-or-nothing: when it returned True all its
\* rows are committed, and the rows written by a call that returned False
\* are never committed, neither by that call nor by a later call's commit.
C28_AllOrNothing ==
    \A k \in 1..Len(upd_log) :
        /\ upd_log[k].returned => upd_log[k].rows \subseteq tx_committed
        /\ ~upd_log[k].returned => upd_log[k].rows \cap tx_committed = {}

----------------------------------------------------------------------------
(* Properties of fetch_problems *)

\* the questions of the pages received among the first n requests, in the
\* order of the requests
RECURSIVE Received(_)
Received(n) ==
    IF n = 0 THEN <<>>
    ELSE Received(n - 1) \o (IF posted[n].kind = "ok"
                             THEN PageOf(posted[n].skip, posted[n].n) ELSE <<>>)

\* offsets 0, 100, 200, ... in increasing order, each once
OffsetsInOrder == \A k \in 1..Len(posted) : posted[k].skip = (k - 1) * limit

Stopped == fetch_pc = "done"

\* the call stops when the offset reaches the reported total, not before
StopsAtTotal ==
    /\ (Stopped /\ posted[Len(posted)].kind = "ok"
            /\ (Len(posted) = 1 \/ posted[Len(posted)].n > 0))
          => Len(posted) * limit >= total_problems
    /\ fetch_pc = "loop" => Len(posted) * limit < total_problems

\* C29 as stated, without termination: offsets in increasing order, no
\* request after a failed or empty page, a stop when the offset reaches the
\* total, and the pages received returned in offset order ([] when the
\* first page fails).
C29_PagesAsStated ==
    /\ OffsetsInOrder
    /\ \A k \in 1..(Len(posted) - 1) : posted[k].kind = "ok" /\ posted[k].n > 0
    /\ StopsAtTotal
    /\ Stopped => fetch_out.value = Received(Len(posted))

C29_PagesAsCoded ==
    /\ OffsetsInOrder
    /\ \A k \in 1..(Len(posted) - 1) :
          posted[k].kind = "ok" /\ (posted[k].n > 0 \/ k = 1)
    /\ StopsAtTotal
    /\ Stopped =>
          fetch_out.value = IF posted[Len(posted)].kind = "malformed" THEN <<>>
                            ELSE Received(Len(posted))

----------------------------------------------------------------------------
(* Properties of handle_add_to_list *)

\* C30: every problem loaded from the file is processed and counted exactly
\* once: success_count + fail_count is the number of problems processed so
\* far, at the end it is the number of problems, and add_problem_to_list is
\* called at most once per problem and only for a problem whose id was
\* resolved without error.
C30_EveryProblemCountedOnce ==
    /\ success_count + fail_count = list_i
    /\ Len(resolve_errors) = list_i
    /\ list_pc \in {"done", "raised"} =>
          /\ list_i = Len(problem_inputs)
          /\ success_count + fail_count = Len(problem_inputs)
    /\ \A a, b \in 1..Len(add_calls) : a < b => add_calls[a] < add_calls[b]
    /\ \A a \in 1..Len(add_calls) :
          /\ add_calls[a] \in 1..list_i
          /\ ~resolve_errors[add_calls[a]]

====
